---- MODULE Spec2Model ----
(***************************************************************************)
(* Client-side view models of the transcription web UI: the two optional   *)
(* post-processing stages of the job detail page (LLM cleanup, insights)   *)
(* with their confirm step, start request and 2-second polling loops, and  *)
(* the queue view with its handlers, the upload card, the speaker editor,   *)
(* the mind map viewer (zoom and diagram set-up), the load of the job      *)
(* detail page and the scroll synchronisation's binary search.  The        *)
(* backend is an opaque HTTP collaborator: every response is chosen        *)
(* nondeterministically among the responses it can give.                   *)
(***************************************************************************)
EXTENDS Integers, Sequences, FiniteSets, TLC

\* ------------------------------------------------------------------ bounds
MaxRuns == 2
MaxInFlight == 1
ScaledPollsCleanup == 2
ScaledPollsInsights == 1
MaxOverlap == 2

\* --------------------------------------------------------------- constants
MaxPollsCleanup == 500
MaxPollsInsights == 60

\* ------------------------------------------------------------ vocabulary
Stages == {"cleanup", "insights"}
Templates == {"t1", "t2"}
FirstTemplate == "t1"
Msgs == {"", "rate limited"}
OpStatuses == {"processing", "success", "failed"}

\* job detail page and its two stage controls
VARIABLES pageMounted, hasResult, shown, selected, isProcessing,
          showConfirm, runs, toast
\* queue view
VARIABLES transcriptions, isLoading

\* queue view: selection, sections, start buttons, requests in flight, and the
\* text each mounted DraftItem holds
VARIABLES selectedIds, expandedSections, isStarting, pending, prompts
\* what the latest step did towards the outside: the request it sent, the
\* request whose failure it handled, the notification it raised, the
\* confirmation prompt it showed
VARIABLE ev

\* FileUpload: the pending files, the inline error, the upload in progress
\* (the list the handler holds and the place of the request in flight) and the
\* files the backend accepted
VARIABLES files, uploadError, isUploading, uploadProgress, uploadRun, submitted
\* FileUpload, the history of each file: how many times it was put on the
\* pending list and how many times the backend accepted it
VARIABLES addedCount, acceptedCount

\* SpeakerEditor: the rows' names, the pending suggestions, the page's speaker
\* map, the request in flight with the state its handler holds, the load in
\* flight, the backend's speaker map and suggestions, the suggestions dismissed
\* so far and the number of times the editor was replaced
VARIABLES speakers, suggestions, pageSpeakers, isApplyingAll, speakerReq, loading,
          srvNames, srvSuggestions, dismissed, remounts

\* MindmapViewer: the zoom factor, the fullscreen overlay, and whether the
\* markmap of the card and the one of the overlay exist
VARIABLES zoom, isFullscreen, markmapRef, fullscreenMarkmapRef

\* MindmapViewer, the diagrams: the viewer is on the page, the version of its
\* markdown prop, whether each surface's box is zero, the callbacks waiting
\* for a frame or a timeout, the markdown version each diagram shows (0: no
\* diagram) and what the last step did
VARIABLES viewerMounted, markdown, boxZero, scheduled, data, mmLog

\* the job detail page's load: the records fetchData stored, the view shown,
\* the loading and error flags, where fetchData stands (its two first requests,
\* the template of the newest insights), and the completion handlers whose
\* request is in flight
VARIABLES transcription, transcript, cleanedTranscript, hasCleanedVersion, viewMode,
          pageIsLoading, error, insights, hasInsights,
          fetchAt, detailReq, dataReq, fetchTpl, pageCalls

\* TranscriptPanel.scrollToTimestamp: the panel's segment start times, the
\* requested timestamp, the locals of the binary search, where the call
\* stands, the index of the segment scrolled into view last (-1: none), and
\* the number of passes the call has made through its loop
VARIABLES segments, timestamp, left, right, nearest, searchPc, scrolledTo, passes

stageVars == <<pageMounted, hasResult, shown, selected, isProcessing,
               showConfirm, runs, toast>>
queueVars == <<transcriptions, isLoading>>
uiVars == <<selectedIds, expandedSections, isStarting, pending, prompts>>
uploadVars == <<files, uploadError, isUploading, uploadProgress, uploadRun, submitted,
                addedCount, acceptedCount>>
speakerVars == <<speakers, suggestions, pageSpeakers, isApplyingAll, speakerReq, loading,
                 srvNames, srvSuggestions, dismissed, remounts>>
zoomVars == <<zoom, isFullscreen, markmapRef, fullscreenMarkmapRef,
              viewerMounted, markdown, boxZero, scheduled, data, mmLog>>
pageVars == <<transcription, transcript, cleanedTranscript, hasCleanedVersion, viewMode,
              pageIsLoading, error, insights, hasInsights,
              fetchAt, detailReq, dataReq, fetchTpl, pageCalls>>
searchVars == <<segments, timestamp, left, right, nearest, searchPc, scrolledTo, passes>>
nonStageVars == <<queueVars, uiVars, ev, uploadVars, speakerVars, zoomVars, pageVars, searchVars>>
nonQueueVars == <<stageVars, uploadVars, speakerVars, zoomVars, pageVars, searchVars>>
nonUploadVars == <<stageVars, queueVars, uiVars, speakerVars, zoomVars, pageVars, searchVars>>
nonSpeakerVars == <<stageVars, queueVars, uiVars, uploadVars, zoomVars, pageVars, searchVars>>
nonZoomVars == <<stageVars, queueVars, uiVars, ev, uploadVars, speakerVars, pageVars, searchVars>>
nonPageVars == <<stageVars, queueVars, uiVars, ev, uploadVars, speakerVars, zoomVars, searchVars>>
nonSearchVars == <<stageVars, queueVars, uiVars, ev, uploadVars, speakerVars, zoomVars, pageVars>>
vars == <<stageVars, queueVars, uiVars, ev, uploadVars, speakerVars, zoomVars, pageVars,
          searchVars>>

\* const maxPolls of a stage's handler, and its scaled-down stand-in
maxPolls(s) == IF s = "cleanup" THEN MaxPollsCleanup ELSE MaxPollsInsights
ScaledPolls(s) == IF s = "cleanup" THEN ScaledPollsCleanup ELSE ScaledPollsInsights

\* toast: the transient notification raised by the latest step, if any
NoToast == [level |-> "none", text |-> <<>>]

RunIds == 1..Len(runs)
\* ------------------------------------------------------------ timestamps
\* startTime and created_at are ISO-8601 strings of one clock, compared with >=.
\* Only their order matters: the clock is read in units of start clicks, so the
\* k-th run of the session records startTime k, a record created between the
\* k-th and the next start click carries k, a record of an earlier session 0.
now == Len(runs)

\* Fresh without the comparison: any record counts
FreshAny(createdAt, startTime) == TRUE

Fresh(createdAt, startTime) == createdAt >= startTime

\* `m || "Unknown error"`
ErrText(m) == IF m = "" THEN "Unknown error" ELSE m

Toast(level, text) == [level |-> level, text |-> text]

\* --------------------------------------------------------------- backend
NoOp == [type |-> "none", tpl |-> "", at |-> 0, status |-> "", err |-> ""]

\* A start request for stage s and template t was sent no later than time a
Requested(s, t, a) ==
    \E r \in RunIds : runs[r].stage = s /\ runs[r].tpl = t /\ runs[r].startTime <= a

\* The newest operation record the backend can report at this moment: a record
\* created for a start request of this session, or one of an earlier session
\* (created at 0, made with the first template, finished).
OpRecords ==
    { o \in [type : Stages, tpl : Templates, at : 0..now, status : OpStatuses, err : Msgs] :
        /\ (o.status # "failed" => o.err = "")
        /\ (o.at >= 1 => Requested(o.type, o.tpl, o.at))
        /\ (o.at = 0 => o.tpl = FirstTemplate /\ o.status # "processing"
                          /\ (o.status = "failed" => o.err # "")) }

\* GET /api/postprocess/operations?transcription_id=..&limit=1
OpsResponses ==
    { [kind |-> k, op |-> NoOp] : k \in {"throw", "notok", "empty"} }
      \cup { [kind |-> "ok", op |-> o] : o \in OpRecords }

\* GET /api/insights/transcriptions/{id}/{template}; at = -1: no metadata.created_at
ArtifactResponses(t) ==
    { [at |-> -1, kind |-> k] : k \in {"throw", "notok"} }
      \cup { [at |-> a, kind |-> "ok"] :
               a \in { x \in (-1)..now : x >= 1 => Requested("insights", t, x) } }

\* ------------------------------------------------------------------ runs
NewRun(s, mp) ==
    [maxPolls |-> mp, startTime |-> now + 1, tpl |-> selected[s], stage |-> s,
     pollCount |-> 0, phase |-> "starting", owner |-> "comp",
     awaitA |-> 0, awaitB |-> 0, cb |-> 0,
     outcome |-> "none", nTerm |-> 0, nDone |-> 0]

\* Once the interval is cleared and no tick or completion callback of the run is
\* pending, nothing references the handler's closure any more: its pollCount
\* and its captured setters are unreachable and are dropped from the state.
Settle(run) ==
    IF run.phase = "stopped" /\ run.awaitA + run.awaitB = 0 /\ run.cb = 0
    THEN [run EXCEPT !.pollCount = 0, !.owner = "none"]
    ELSE run

\* the component instance that started run r is still mounted
Owned(r) == runs[r].owner = "comp"

\* setIsProcessing(false) from run r's closure: a no-op on an unmounted instance
ClearProcessing(r) ==
    IF Owned(r) THEN [isProcessing EXCEPT ![runs[r].stage] = FALSE] ELSE isProcessing

\* InsightsControls is keyed by hasCleanedVersion and cleaningTemplateId: a change
\* of either unmounts the instance and mounts a fresh one
RemountInsightsRuns(rs) ==
    [r \in DOMAIN rs |->
        IF rs[r].stage = "insights" /\ rs[r].owner = "comp"
        THEN [rs[r] EXCEPT !.owner = "page"] ELSE rs[r]]

DropOwners(rs) == [r \in DOMAIN rs |-> [rs[r] EXCEPT !.owner = "none"]]

\* ------------------------------------------------- handleProcess / handleGenerate
\* NeedsConfirm without the confirm step
NeedsConfirmNever(has, confirm) == FALSE

NeedsConfirm(has, confirm) == has /\ ~confirm

\* a run of stage s that has not reached a terminal state
LiveRun(s) == \E r \in RunIds : runs[r].stage = s /\ runs[r].phase # "stopped"

\* BeginRun with a guard the source does not have: a second start is dropped
\* while a run of the stage is live
BeginRunDeduped(s, mp, cap) ==
    IF LiveRun(s)
    THEN /\ toast' = Toast("error", <<"Already running">>)
         /\ UNCHANGED <<pageMounted, hasResult, shown, selected, isProcessing, showConfirm, runs>>
    ELSE /\ Len(runs) < cap
         /\ isProcessing' = [isProcessing EXCEPT ![s] = TRUE]
         /\ showConfirm' = [showConfirm EXCEPT ![s] = FALSE]
         /\ runs' = Append(runs, NewRun(s, mp))
         /\ UNCHANGED <<pageMounted, hasResult, shown, selected>> /\ toast' = NoToast

\* setIsProcessing(true); setShowConfirm(false); startTime; the start request
\* (mp: the handler's maxPolls; cap: the number of runs the model follows)
BeginRun(s, mp, cap) ==
    /\ Len(runs) < cap
    /\ isProcessing' = [isProcessing EXCEPT ![s] = TRUE]
    /\ showConfirm' = [showConfirm EXCEPT ![s] = FALSE]
    /\ runs' = Append(runs, NewRun(s, mp))
    /\ UNCHANGED <<pageMounted, hasResult, shown, selected>> /\ toast' = NoToast

HandleStart(s, mp, cap) ==
    IF NeedsConfirm(hasResult[s], showConfirm[s])
    THEN /\ showConfirm' = [showConfirm EXCEPT ![s] = TRUE]
         /\ UNCHANGED <<pageMounted, hasResult, shown, selected, isProcessing, runs>> /\ toast' = NoToast
    ELSE IF selected[s] = ""
    THEN /\ toast' = Toast("error", <<"Please select a template">>)
         /\ UNCHANGED <<pageMounted, hasResult, shown, selected, isProcessing, showConfirm, runs>>
    ELSE BeginRun(s, mp, cap)

\* the main button: rendered when no confirm step is open, disabled while
\* processing or without a template
ClickStart(s, mp, cap) ==
    /\ pageMounted /\ ~showConfirm[s]
    /\ ~isProcessing[s] /\ selected[s] # ""
    /\ HandleStart(s, mp, cap)
    /\ UNCHANGED nonStageVars

ClickYes(s, mp, cap) ==
    /\ pageMounted /\ showConfirm[s]
    /\ HandleStart(s, mp, cap)
    /\ UNCHANGED nonStageVars

\* handleCancel
ClickNo(s) ==
    /\ pageMounted /\ showConfirm[s]
    /\ showConfirm' = [showConfirm EXCEPT ![s] = FALSE]
    /\ UNCHANGED <<pageMounted, hasResult, shown, selected, isProcessing, runs>> /\ toast' = NoToast
    /\ UNCHANGED nonStageVars

\* await startPostProcessing / generateInsights resolves or rejects
StartResp(r, ok, detail) ==
    /\ runs[r].phase = "starting"
    /\ IF ok
       THEN /\ runs' = [runs EXCEPT ![r].phase = "polling"]
            /\ toast' = Toast("success",
                  <<IF runs[r].stage = "cleanup" THEN "Post-processing started"
                    ELSE "Generating insights...">>)
            /\ UNCHANGED isProcessing
       ELSE /\ runs' = [runs EXCEPT ![r] =
                  Settle([@ EXCEPT !.phase = "stopped", !.outcome = "startError"])]
            /\ isProcessing' = ClearProcessing(r)
            /\ toast' = Toast("error",
                  <<IF detail # "" THEN detail
                    ELSE IF runs[r].stage = "cleanup" THEN "Failed to start post-processing"
                    ELSE "Failed to generate insights">>)
    /\ UNCHANGED <<pageMounted, hasResult, shown, selected, showConfirm>>
    /\ UNCHANGED nonStageVars

\* ------------------------------------------------------------ poll ticks
\* setInterval callback, up to its first await: pollCount++ and the first fetch
\* (cap: the number of overlapping ticks of one run the model follows)
TickFire(r, cap) ==
    /\ runs[r].phase = "polling"
    /\ runs[r].awaitA + runs[r].awaitB < cap
    /\ runs[r].pollCount <= runs[r].maxPolls
    /\ runs' = [runs EXCEPT ![r] =
          IF runs[r].stage = "cleanup"
          THEN [runs[r] EXCEPT !.pollCount = @ + 1, !.awaitB = @ + 1]
          ELSE [runs[r] EXCEPT !.pollCount = @ + 1, !.awaitA = @ + 1]]
    /\ UNCHANGED <<pageMounted, hasResult, shown, selected, isProcessing, showConfirm>> /\ toast' = NoToast
    /\ UNCHANGED nonStageVars

\* CleanupVerdict that never looks at a failed status
CleanupVerdictNoFailed(resp, startTime, pollCount, mp) ==
    IF resp.kind = "throw" THEN "continue"
    ELSE IF resp.kind = "ok" /\ Fresh(resp.op.at, startTime) /\ resp.op.status = "success"
    THEN "success"
    ELSE IF pollCount >= mp THEN "timeout"
    ELSE "continue"

\* cleanup tick after the operations response
CleanupVerdict(resp, startTime, pollCount, mp) ==
    IF resp.kind = "throw" THEN "continue"
    ELSE IF resp.kind = "ok" /\ Fresh(resp.op.at, startTime) /\ resp.op.status = "success"
    THEN "success"
    ELSE IF resp.kind = "ok" /\ Fresh(resp.op.at, startTime) /\ resp.op.status = "failed"
    THEN "failed"
    ELSE IF pollCount >= mp THEN "timeout"
    ELSE "continue"

\* ArtifactVerdict that accepts no artifact
ArtifactVerdictNever(resp, startTime) ==
    IF resp.kind = "throw" THEN "abort" ELSE "checkOps"

\* insights tick after the artifact response
ArtifactVerdict(resp, startTime) ==
    IF resp.kind = "throw" THEN "abort"
    ELSE IF resp.kind = "ok" /\ Fresh(resp.at, startTime) THEN "success"
    ELSE "checkOps"

\* InsightsVerdict that never looks for a failed operation
InsightsVerdictNoFailed(resp, startTime, tpl, pollCount, mp) ==
    IF resp.kind = "throw" THEN "continue"
    ELSE IF pollCount >= mp THEN "timeout"
    ELSE "continue"

\* insights tick after the operations response
InsightsVerdict(resp, startTime, tpl, pollCount, mp) ==
    IF resp.kind = "throw" THEN "continue"
    ELSE IF /\ resp.kind = "ok"
            /\ Fresh(resp.op.at, startTime)
            /\ resp.op.status = "failed"
            /\ resp.op.tpl = tpl
    THEN "failed"
    ELSE IF pollCount >= mp THEN "timeout"
    ELSE "continue"

OpsVerdict(run, resp) ==
    IF run.stage = "cleanup"
    THEN CleanupVerdict(resp, run.startTime, run.pollCount, run.maxPolls)
    ELSE InsightsVerdict(resp, run.startTime, run.tpl, run.pollCount, run.maxPolls)

SuccessText(s) == IF s = "cleanup" THEN <<"Post-processing complete!">> ELSE <<"Insights generated!">>
FailedText(s, m) ==
    IF s = "cleanup" THEN <<"Post-processing failed: ", ErrText(m)>> ELSE <<"Failed: ", ErrText(m)>>
TimeoutText(s) == IF s = "cleanup" THEN <<"Post-processing timed out">> ELSE <<"Generation timed out">>

\* clearInterval; setIsProcessing(false); toast; [completion callback]
Terminate(r, run, outcome, text) ==
    /\ runs' = [runs EXCEPT ![r] =
          Settle([run EXCEPT !.phase = "stopped", !.outcome = outcome,
                             !.nTerm = @ + 1,
                             !.cb = IF outcome = "success" THEN @ + 1 ELSE @,
                             !.nDone = IF outcome = "success" THEN @ + 1 ELSE @])]
    /\ isProcessing' = ClearProcessing(r)
    /\ toast' = Toast(IF outcome = "success" THEN "success" ELSE "error", text)

TickArtifactResp(r, resp) ==
    /\ runs[r].stage = "insights" /\ runs[r].awaitA > 0
    /\ LET run == [runs[r] EXCEPT !.awaitA = @ - 1]
           v == ArtifactVerdict(resp, run.startTime)
       IN  CASE v = "success" ->
                  Terminate(r, run, "success", SuccessText("insights"))
             [] v = "checkOps" ->
                  /\ runs' = [runs EXCEPT ![r] = [run EXCEPT !.awaitB = @ + 1]]
                  /\ UNCHANGED <<isProcessing>> /\ toast' = NoToast
             [] OTHER ->
                  /\ runs' = [runs EXCEPT ![r] = Settle(run)]
                  /\ UNCHANGED <<isProcessing>> /\ toast' = NoToast
    /\ UNCHANGED <<pageMounted, hasResult, shown, selected, showConfirm>>
    /\ UNCHANGED nonStageVars

TickOpsResp(r, resp) ==
    /\ runs[r].awaitB > 0
    /\ LET run == [runs[r] EXCEPT !.awaitB = @ - 1]
           v == OpsVerdict(run, resp)
       IN  CASE v = "success" ->
                  Terminate(r, run, "success", SuccessText(run.stage))
             [] v = "failed" ->
                  Terminate(r, run, "failed", FailedText(run.stage, resp.op.err))
             [] v = "timeout" ->
                  Terminate(r, run, "timeout", TimeoutText(run.stage))
             [] OTHER ->
                  /\ runs' = [runs EXCEPT ![r] = Settle(run)]
                  /\ UNCHANGED <<isProcessing>> /\ toast' = NoToast
    /\ UNCHANGED <<pageMounted, hasResult, shown, selected, showConfirm>>
    /\ UNCHANGED nonStageVars

\* ------------------------------------------------------- page callbacks
\* a fresh InsightsControls instance: useState initial values
FreshInsights(f, v) == [f EXCEPT !["insights"] = v]

\* handleProcessingComplete / handleInsightsComplete: the artifact fetch of a
\* completion callback resolves (ok, the artifact of the run's template) or rejects
CallbackResolve(r, ok) ==
    /\ runs[r].cb > 0
    /\ LET s == runs[r].stage
           rs == [runs EXCEPT ![r] = Settle([@ EXCEPT !.cb = @ - 1])]
       IN  IF ok /\ runs[r].owner # "none"
           THEN /\ shown' = [shown EXCEPT ![s] = runs[r].tpl]
                /\ hasResult' = [hasResult EXCEPT ![s] = TRUE]
                /\ IF s = "cleanup" /\ ~hasResult["cleanup"]
                   THEN /\ runs' = RemountInsightsRuns(rs)
                        /\ isProcessing' = FreshInsights(isProcessing, FALSE)
                        /\ showConfirm' = FreshInsights(showConfirm, FALSE)
                        /\ selected' = FreshInsights(selected, "")
                   ELSE /\ runs' = rs
                        /\ UNCHANGED <<isProcessing, showConfirm, selected>>
           ELSE /\ runs' = rs
                /\ UNCHANGED <<hasResult, shown, isProcessing, showConfirm, selected>>
    /\ UNCHANGED <<pageMounted>> /\ toast' = NoToast
    /\ UNCHANGED nonStageVars

\* ------------------------------------------------------ template select
\* usedTemplateId of a stage: the template in the displayed artifact's metadata
UsedTemplate(s) == IF shown[s] \in Templates THEN shown[s] ELSE ""

\* the load effect of a control: picks a template when none is selected
\* (cleanup: used > first; insights: used > suggested by step 1 > first)
LoadChoice(s) ==
    IF UsedTemplate(s) # "" THEN UsedTemplate(s)
    ELSE IF s = "insights" /\ selected["cleanup"] # "" THEN selected["cleanup"]
    ELSE FirstTemplate

\* a new cleanup template reaches the page (onTemplateChange -> cleaningTemplateId),
\* which changes the key of InsightsControls
SetSelected(s, t) ==
    IF s = "cleanup"
    THEN /\ selected' = [selected EXCEPT !["cleanup"] = t, !["insights"] = ""]
         /\ isProcessing' = FreshInsights(isProcessing, FALSE)
         /\ showConfirm' = FreshInsights(showConfirm, FALSE)
         /\ runs' = RemountInsightsRuns(runs)
    ELSE /\ selected' = [selected EXCEPT ![s] = t]
         /\ UNCHANGED <<isProcessing, showConfirm, runs>>

LoadTemplates(s) ==
    /\ pageMounted /\ selected[s] = ""
    /\ SetSelected(s, LoadChoice(s))
    /\ UNCHANGED <<pageMounted, hasResult, shown>> /\ toast' = NoToast
    /\ UNCHANGED nonStageVars

\* the Select control, disabled while processing
SelectTemplate(s, t) ==
    /\ pageMounted /\ ~isProcessing[s]
    /\ selected[s] # "" /\ t # selected[s]
    /\ SetSelected(s, t)
    /\ UNCHANGED <<pageMounted, hasResult, shown>> /\ toast' = NoToast
    /\ UNCHANGED nonStageVars

\* ----------------------------------------------------------- navigation
BoolFn(v) == [s \in Stages |-> v]

\* leaving the job page: its state is gone, its intervals are not cleared
\* (a later visit mounts a new page instance with state of its own)
PageUnmount ==
    /\ pageMounted
    /\ pageMounted' = FALSE
    /\ hasResult' = BoolFn(FALSE)
    /\ shown' = [s \in Stages |-> "none"]
    /\ selected' = [s \in Stages |-> ""]
    /\ isProcessing' = BoolFn(FALSE)
    /\ showConfirm' = BoolFn(FALSE)
    /\ runs' = DropOwners(runs)
    /\ toast' = NoToast
    /\ UNCHANGED nonStageVars

\* ============================================================ queue view
MaxJobs == 3

\* the six values of Transcription.status, and one the type does not list
JobStatuses == {"draft", "queued", "processing", "diarizing", "completed", "failed"}
ServerStatuses == JobStatuses \cup {"cancelled"}

\* initial_prompt: string | null
NullPrompt == "null"

\* what GET /api/transcribe/queue can return: up to MaxJobs jobs, ids distinct
QueueLists ==
    UNION { [1..n -> ServerStatuses] : n \in 0..MaxJobs }

AsJobs(f) == [i \in DOMAIN f |-> [status |-> f[i], id |-> i, initial_prompt |-> NullPrompt]]

IsDraft(t) == t.status = "draft"
IsQueued(t) == t.status = "queued"
\* IsInProgress that forgets the diarizing status
IsInProgressOnlyProcessing(t) == t.status = "processing"

IsInProgress(t) == t.status \in {"processing", "diarizing"}
IsCompleted(t) == t.status \in {"completed", "failed"}

\* the four sections, recomputed from the list on every render
drafts == SelectSeq(transcriptions, IsDraft)
queued == SelectSeq(transcriptions, IsQueued)
inProgress == SelectSeq(transcriptions, IsInProgress)
completed == SelectSeq(transcriptions, IsCompleted)

\* ------------------------------------------------- step log and requests
NoReq == [text |-> "", kind |-> "none", id |-> 0, ids |-> {}]
Req(kind, id, ids, text) == [text |-> text, kind |-> kind, id |-> id, ids |-> ids]
NoEv == [req |-> NoReq, fail |-> "none", notice |-> "none", asked |-> "none", answer |-> FALSE]

\* ------------------------------------------------------------ DraftItem
\* `transcription.initial_prompt || ""`
StoredContext(t) == IF t.initial_prompt = NullPrompt THEN "" ELSE t.initial_prompt

JobOf(js, i) == js[CHOOSE j \in DOMAIN js : js[j].id = i]

\* DraftItem instances are keyed by job id and rendered inside the draft
\* section's body: an instance exists while its job is a draft of the list and
\* the section is expanded; a new instance starts from the job's stored context
MountDrafts(js, exp, old) ==
    LET ids == IF exp.draft
               THEN { js[j].id : j \in { k \in DOMAIN js : IsDraft(js[k]) } }
               ELSE {}
    IN  [i \in ids |-> IF i \in DOMAIN old THEN old[i] ELSE StoredContext(JobOf(js, i))]

\* ------------------------------------------------------------ fetchQueue
\* ApplyQueue that also resets the selection and the sections
ApplyQueueResetting(js) ==
    /\ transcriptions' = js
    /\ isLoading' = FALSE
    /\ selectedIds' = {}
    /\ expandedSections' = [queued |-> FALSE, inProgress |-> TRUE, completed |-> FALSE, draft |-> TRUE]
    /\ prompts' = MountDrafts(js, expandedSections', prompts)

\* fetchQueue, getQueue resolved with the list js: setTranscriptions(data);
\* setIsLoading(false); the render that follows mounts and unmounts DraftItems
ApplyQueue(js) ==
    /\ transcriptions' = js
    /\ isLoading' = FALSE
    /\ prompts' = MountDrafts(js, expandedSections, prompts)
    /\ UNCHANGED <<selectedIds, expandedSections>>

\* fetchQueue of the polling effect (interval tick or refreshTrigger change)
FetchQueue(js) ==
    /\ ApplyQueue(js)
    /\ ev' = NoEv
    /\ UNCHANGED <<isStarting, pending>>
    /\ UNCHANGED nonQueueVars

\* fetchQueue: getQueue rejected (logged; the list is kept)
FetchQueueFail ==
    /\ isLoading' = FALSE
    /\ ev' = NoEv
    /\ UNCHANGED <<transcriptions, selectedIds, expandedSections, isStarting, pending, prompts>>
    /\ UNCHANGED nonQueueVars

\* ------------------------------------------------------- queue handlers
MaxUiJobs == 2
MaxPending == 1

JobIds == 1..MaxUiJobs
Texts == {"", "ctx"}
UiStatuses == {"draft", "failed"}
SectionKeys == {"draft", "queued", "inProgress", "completed"}
Scopes == {"all", "failed"}
\* the sections whose header the model clicks
ToggledKeys == {"draft", "completed"}

IsPresent(t) == t.status # "absent"

\* the lists the queue endpoint returns in this view's model: any subset of
\* the job ids, each job with a status and a stored context
UiQueueLists ==
    { SelectSeq([i \in JobIds |-> [status |-> g[i][1], id |-> i, initial_prompt |-> g[i][2]]],
                IsPresent) :
        g \in [JobIds -> ({"absent"} \X {NullPrompt})
                            \cup (UiStatuses \X {NullPrompt, "ctx"})] }

\* a request handler may send (the model follows MaxPending requests at a time)
CanSend == Cardinality(pending) < MaxPending

Send(r) ==
    /\ CanSend
    /\ pending' = pending \cup {r}

\* console.error(...): the failure of a request of this kind is logged, no
\* notification is raised
LogOnly(kind) == [NoEv EXCEPT !.fail = kind]

\* toggleSection
ToggleSection(k) ==
    /\ ~isLoading
    /\ expandedSections' = [expandedSections EXCEPT ![k] = ~@]
    /\ prompts' = MountDrafts(transcriptions, expandedSections', prompts)
    /\ ev' = NoEv
    /\ UNCHANGED <<transcriptions, isLoading, selectedIds, isStarting, pending>>
    /\ UNCHANGED nonQueueVars

\* toggleSelect, from the checkbox of a rendered DraftItem
ToggleSelect(i) ==
    /\ ~isLoading /\ i \in DOMAIN prompts
    /\ selectedIds' = IF i \in selectedIds THEN selectedIds \ {i} ELSE selectedIds \cup {i}
    /\ ev' = NoEv
    /\ UNCHANGED <<transcriptions, isLoading, expandedSections, isStarting, pending, prompts>>
    /\ UNCHANGED nonQueueVars

\* handleStartSelected up to its first await
ClickStartSelected ==
    /\ ~isLoading /\ Len(drafts) > 0
    /\ selectedIds # {} /\ ~isStarting
    /\ isStarting' = TRUE
    /\ Send(Req("start", 0, selectedIds, ""))
    /\ ev' = [NoEv EXCEPT !.req = Req("start", 0, selectedIds, "")]
    /\ UNCHANGED <<transcriptions, isLoading, selectedIds, expandedSections, prompts>>
    /\ UNCHANGED nonQueueVars

\* handleStartAll up to its first await
ClickStartAll ==
    /\ ~isLoading /\ Len(drafts) > 0 /\ ~isStarting
    /\ isStarting' = TRUE
    /\ Send(Req("startAll", 0, {}, ""))
    /\ ev' = [NoEv EXCEPT !.req = Req("startAll", 0, {}, "")]
    /\ UNCHANGED <<transcriptions, isLoading, selectedIds, expandedSections, prompts>>
    /\ UNCHANGED nonQueueVars

\* handleStartSelected / handleStartAll after the start request: resolved
\* (selection cleared, fetchQueue awaited) or rejected (logged)
StartDone(p, ok) ==
    /\ p \in pending /\ p.kind \in {"start", "startAll"}
    /\ IF ok
       THEN /\ selectedIds' = {}
            /\ pending' = (pending \ {p}) \cup {Req("refetchStart", 0, {}, "")}
            /\ ev' = NoEv
            /\ UNCHANGED isStarting
       ELSE /\ isStarting' = FALSE
            /\ pending' = pending \ {p}
            /\ ev' = LogOnly(p.kind)
            /\ UNCHANGED selectedIds
    /\ UNCHANGED <<transcriptions, isLoading, expandedSections, prompts>>
    /\ UNCHANGED nonQueueVars

\* the fetchQueue a handler called resolves with js or rejects; after a start
\* handler's fetchQueue the finally block runs setIsStarting(false)
RefetchDone(p, js, ok) ==
    /\ p \in pending /\ p.kind \in {"refetch", "refetchStart"}
    /\ IF ok THEN ApplyQueue(js)
       ELSE /\ isLoading' = FALSE
            /\ UNCHANGED <<transcriptions, prompts, selectedIds, expandedSections>>
    /\ isStarting' = IF p.kind = "refetchStart" THEN FALSE ELSE isStarting
    /\ pending' = pending \ {p}
    /\ ev' = NoEv
    /\ UNCHANGED nonQueueVars

\* handleDelete up to its await, from the button of a rendered DraftItem
ClickDelete(i) ==
    /\ ~isLoading /\ i \in DOMAIN prompts
    /\ Send(Req("delete", i, {}, ""))
    /\ ev' = [NoEv EXCEPT !.req = Req("delete", i, {}, "")]
    /\ UNCHANGED <<transcriptions, isLoading, selectedIds, expandedSections, isStarting, prompts>>
    /\ UNCHANGED nonQueueVars

\* handleDelete after deleteTranscription
DeleteDone(p, ok) ==
    /\ p \in pending /\ p.kind = "delete"
    /\ IF ok
       THEN /\ pending' = (pending \ {p}) \cup {Req("refetch", 0, {}, "")}
            /\ ev' = NoEv
       ELSE /\ pending' = pending \ {p}
            /\ ev' = LogOnly("delete")
    /\ UNCHANGED <<transcriptions, isLoading, selectedIds, expandedSections, isStarting, prompts>>
    /\ UNCHANGED nonQueueVars

\* ConfirmGate that lets every answer through
ConfirmGateOpen(accepted) == TRUE

\* `if (!confirm(...)) return`
ConfirmGate(accepted) == accepted

\* handleClearHistory(scope) up to its await: the browser's confirm dialog is
\* answered (accepted or not), then the DELETE request is sent
ClickClearHistory(scope, accepted) ==
    /\ ~isLoading /\ Len(completed) > 0
    /\ scope = "failed" => \E j \in DOMAIN completed : completed[j].status = "failed"
    /\ IF ConfirmGate(accepted)
       THEN /\ Send(Req("clear", 0, {}, scope))
            /\ ev' = [NoEv EXCEPT !.req = Req("clear", 0, {}, scope),
                                  !.asked = scope, !.answer = accepted]
       ELSE /\ ev' = [NoEv EXCEPT !.asked = scope, !.answer = accepted]
            /\ UNCHANGED pending
    /\ UNCHANGED <<transcriptions, isLoading, selectedIds, expandedSections, isStarting, prompts>>
    /\ UNCHANGED nonQueueVars

\* handleClearHistory after the DELETE: fetch resolved with a 2xx ("ok") or
\* with an error status ("http", response.ok is not looked at), or rejected
ClearDone(p, outcome) ==
    /\ p \in pending /\ p.kind = "clear"
    /\ IF outcome \in {"ok", "http"}
       THEN /\ pending' = (pending \ {p}) \cup {Req("refetch", 0, {}, "")}
            /\ ev' = IF outcome = "http" THEN [NoEv EXCEPT !.fail = "clear"] ELSE NoEv
       ELSE /\ pending' = pending \ {p}
            /\ ev' = LogOnly("clear")
    /\ UNCHANGED <<transcriptions, isLoading, selectedIds, expandedSections, isStarting, prompts>>
    /\ UNCHANGED nonQueueVars

\* DraftItem: onChange of the context input
EditPrompt(i, text) ==
    /\ ~isLoading /\ i \in DOMAIN prompts
    /\ text # prompts[i]
    /\ prompts' = [prompts EXCEPT ![i] = text]
    /\ ev' = NoEv
    /\ UNCHANGED <<transcriptions, isLoading, selectedIds, expandedSections, isStarting, pending>>
    /\ UNCHANGED nonQueueVars

\* NeedsSave that saves on every blur
NeedsSaveAlways(text, t) == TRUE

\* handleSave: `if (prompt === (transcription.initial_prompt || "")) return`
NeedsSave(text, t) == text # StoredContext(t)

\* DraftItem: onBlur of the context input (handleSave up to its await)
BlurPrompt(i) ==
    /\ ~isLoading /\ i \in DOMAIN prompts
    /\ IF NeedsSave(prompts[i], JobOf(transcriptions, i))
       THEN /\ Send(Req("save", i, {}, prompts[i]))
            /\ ev' = [NoEv EXCEPT !.req = Req("save", i, {}, prompts[i])]
       ELSE /\ ev' = NoEv
            /\ UNCHANGED pending
    /\ UNCHANGED <<transcriptions, isLoading, selectedIds, expandedSections, isStarting, prompts>>
    /\ UNCHANGED nonQueueVars

\* handleSave after updateTranscription: resolved (onUpdate() starts a
\* fetchQueue) or rejected (logged)
SaveDone(p, ok) ==
    /\ p \in pending /\ p.kind = "save"
    /\ IF ok
       THEN /\ pending' = (pending \ {p}) \cup {Req("refetch", 0, {}, "")}
            /\ ev' = NoEv
       ELSE /\ pending' = pending \ {p}
            /\ ev' = LogOnly("save")
    /\ UNCHANGED <<transcriptions, isLoading, selectedIds, expandedSections, isStarting, prompts>>
    /\ UNCHANGED nonQueueVars

\* ------------------------------------------------------------- FileUpload
MaxFiles == 3
MaxSelection == 2
\* the two counts of a file are followed up to MaxCount
MaxCount == 2

\* a file is known by its place in this table of names (sequences of
\* characters): an audio file, one with upper-case extension, a text file and
\* a name that holds the extension's letters without the dot
FileNames ==
    << <<"a", ".", "m", "p", "3">>,
       <<"B", ".", "M", "P", "3">>,
       <<"c", ".", "t", "x", "t">>,
       <<"m", "p", "3">> >>
FileIds == 1..Len(FileNames)

UpperCase == <<"A", "B", "C", "D", "E", "F", "G", "H", "I", "J", "K", "L", "M",
               "N", "O", "P", "Q", "R", "S", "T", "U", "V", "W", "X", "Y", "Z">>
LowerCase == <<"a", "b", "c", "d", "e", "f", "g", "h", "i", "j", "k", "l", "m",
               "n", "o", "p", "q", "r", "s", "t", "u", "v", "w", "x", "y", "z">>
toLowerCase(s) ==
    [k \in 1..Len(s) |->
        IF \E u \in 1..Len(UpperCase) : UpperCase[u] = s[k]
        THEN LowerCase[CHOOSE u \in 1..Len(UpperCase) : UpperCase[u] = s[k]]
        ELSE s[k]]
endsWith(s, suffix) ==
    /\ Len(suffix) <= Len(s)
    /\ SubSeq(s, Len(s) - Len(suffix) + 1, Len(s)) = suffix

audioExtensions ==
    << <<".", "m", "p", "3">>, <<".", "m", "4", "a">>, <<".", "w", "a", "v">>,
       <<".", "o", "g", "g">>, <<".", "f", "l", "a", "c">>, <<".", "w", "e", "b", "m">> >>
isAudioFile(f) ==
    LET name == toLowerCase(FileNames[f])
    IN  \E k \in 1..Len(audioExtensions) : endsWith(name, audioExtensions[k])

\* what one drop or one picker dialog hands over
Selections == UNION { [1..n -> FileIds] : n \in 0..MaxSelection }

NoError == "null"

\* the number of places of list that hold file f
Occurrences(list, f) == Cardinality({ k \in DOMAIN list : list[k] = f })
\* a count raised by n, not followed beyond MaxCount
Counted(c, n) == IF c + n > MaxCount THEN MaxCount ELSE c + n
NoRun == [i |-> 0, list |-> <<>>]

\* Math.round(uploadProgress) of ((k / n) * 100), as the button shows it
Percent(k, n) == (200 * k + n) \div (2 * n)

\* handleDrop / handleFileSelect: the audio files of the selection are
\* appended; the error is set only when the selection holds none
AddFiles(sel, emptyMessage) ==
    LET valid == SelectSeq(sel, isAudioFile)
    IN  /\ Len(files) + Len(valid) <= MaxFiles
        /\ IF Len(valid) > 0
           THEN /\ files' = files \o valid
                /\ uploadError' = NoError
           ELSE /\ uploadError' = emptyMessage
                /\ UNCHANGED files
        /\ addedCount' = [f \in FileIds |-> Counted(addedCount[f], Occurrences(valid, f))]
        /\ ev' = NoEv
        /\ UNCHANGED <<isUploading, uploadProgress, uploadRun, submitted, acceptedCount>>
        /\ UNCHANGED nonUploadVars

HandleDrop(sel) == Len(sel) >= 0 /\ AddFiles(sel, "upload.error.invalidType")

HandleFileSelect(sel) == Len(sel) > 0 /\ AddFiles(sel, "upload.error.noFiles")

RemoveFile(index) ==
    /\ index \in DOMAIN files
    /\ files' = [k \in 1..(Len(files) - 1) |-> IF k < index THEN files[k] ELSE files[k + 1]]
    /\ ev' = NoEv
    /\ UNCHANGED <<uploadError, isUploading, uploadProgress, uploadRun, submitted,
                   addedCount, acceptedCount>>
    /\ UNCHANGED nonUploadVars

ClearAllFiles ==
    /\ files # <<>>
    /\ files' = <<>>
    /\ ev' = NoEv
    /\ UNCHANGED <<uploadError, isUploading, uploadProgress, uploadRun, submitted,
                   addedCount, acceptedCount>>
    /\ UNCHANGED nonUploadVars

\* the click: the handler keeps the list of this render and sends its first file
HandleUpload ==
    /\ files # <<>>
    /\ ~isUploading
    /\ isUploading' = TRUE
    /\ uploadError' = NoError
    /\ uploadProgress' = 0
    /\ uploadRun' = [i |-> 1, list |-> files]
    /\ ev' = [NoEv EXCEPT !.req = Req("upload", files[1], {}, "")]
    /\ UNCHANGED <<files, submitted, addedCount, acceptedCount>>
    /\ UNCHANGED nonUploadVars

\* the loop goes on to the next file
ContinuesAlways(ok, i, n) == i < n
Continues(ok, i, n) == ok /\ i < n

\* uploadAudio of file i settles: the loop sends the next file, or ends with the
\* list cleared, or the catch block shows the error; finally resets the rest
UploadDone(ok) ==
    /\ uploadRun.i > 0
    /\ LET i == uploadRun.i
           n == Len(uploadRun.list)
       IN  /\ submitted' = IF ok THEN submitted \cup {uploadRun.list[i]} ELSE submitted
           /\ acceptedCount' =
                 IF ok THEN [acceptedCount EXCEPT ![uploadRun.list[i]] = Counted(@, 1)]
                 ELSE acceptedCount
           /\ UNCHANGED addedCount
           /\ IF Continues(ok, i, n)
              THEN /\ uploadProgress' = Percent(i, n)
                   /\ uploadRun' = [uploadRun EXCEPT !.i = i + 1]
                   /\ ev' = [NoEv EXCEPT !.req = Req("upload", uploadRun.list[i + 1], {}, "")]
                   /\ UNCHANGED <<files, uploadError, isUploading>>
              ELSE /\ isUploading' = FALSE
                   /\ uploadProgress' = 0
                   /\ uploadRun' = NoRun
                   /\ IF ok
                      THEN /\ files' = <<>>
                           /\ ev' = NoEv
                           /\ UNCHANGED uploadError
                      ELSE /\ uploadError' = "Upload failed"
                           /\ ev' = [NoEv EXCEPT !.fail = "upload", !.notice = "inline"]
                           /\ UNCHANGED files
    /\ UNCHANGED nonUploadVars

\* ---------------------------------------------------------- SpeakerEditor
MaxSpeakers == 2
MaxRemounts == 1

SpeakerIds == 1..MaxSpeakers
DefaultName == "SPEAKER"
TypedName == "Carol"
\* the display name the cleanup run proposes for a speaker
ProposedName(sp) == IF sp = 1 THEN "Alice" ELSE "Bob"

\* one suggestion of suggestions.json
Suggestion(sp, dn, applied) == [applied |-> applied, speaker_id |-> sp, display_name |-> dn]

\* what a cleanup run may write: per speaker no suggestion, one with the
\* proposed name, or one with an empty display name; none applied
FreshSuggestions ==
    { { Suggestion(sp, f[sp], FALSE) : sp \in { q \in SpeakerIds : f[q] # "none" } } :
        f \in [SpeakerIds -> {"none", "named", ""}] }
AsNamed(ss) ==
    { Suggestion(s.speaker_id,
                 IF s.display_name = "named" THEN ProposedName(s.speaker_id) ELSE s.display_name,
                 s.applied) : s \in ss }

\* `data.suggestions.filter((s) => !s.applied && s.display_name)`
Loadable(ss) == { s \in ss : ~s.applied /\ s.display_name # "" }

\* the backend's apply-all: every suggestion not yet applied is written to the
\* speaker map and marked applied
ServerApplyAllNames(names, ss) ==
    [sp \in SpeakerIds |->
        IF \E s \in Loadable(ss) : s.speaker_id = sp
        THEN (CHOOSE s \in Loadable(ss) : s.speaker_id = sp).display_name
        ELSE names[sp]]
ServerApplyAllSuggestions(ss) == { [s EXCEPT !.applied = TRUE] : s \in ss }

\* the backend's update of speaker names from a partial map
ServerUpdateNames(names, sp, name) == [names EXCEPT ![sp] = name]

\* the editor's request in flight (one at a time) with the rows and suggestions
\* of the render that sent it
NoSpeakerReq == [speakers |-> <<>>, suggestions |-> {}, kind |-> "none", id |-> 0, name |-> ""]

\* the editor's getSuggestionForSpeaker
HasSuggestion(ss, sp) == \E s \in ss : s.speaker_id = sp
getSuggestionForSpeaker(ss, sp) == CHOOSE s \in ss : s.speaker_id = sp

\* the suggestions left after one was applied or dismissed
WithoutAny(ss, sp) == {}
Without(ss, sp) == { s \in ss : s.speaker_id # sp }

\* the names apply-all puts in the rows: `suggestionMap.get(s.id) || s.name`
MapNames(names, ss) ==
    [sp \in SpeakerIds |->
        IF HasSuggestion(ss, sp) /\ getSuggestionForSpeaker(ss, sp).display_name # ""
        THEN getSuggestionForSpeaker(ss, sp).display_name
        ELSE names[sp]]

\* loadSuggestions resolves: null on any failure, else the loadable suggestions
LoadSuggestionsDone(ok) ==
    /\ loading
    /\ loading' = FALSE
    /\ suggestions' = IF ok THEN { Suggestion(s.speaker_id, s.display_name, FALSE) : s \in Loadable(srvSuggestions) }
                       ELSE suggestions
    /\ ev' = NoEv
    /\ UNCHANGED <<speakers, pageSpeakers, isApplyingAll, speakerReq, srvNames, srvSuggestions, dismissed, remounts>>
    /\ UNCHANGED nonSpeakerVars

HandleNameChange(sp, name) ==
    /\ speakers[sp] # name
    /\ speakers' = [speakers EXCEPT ![sp] = name]
    /\ ev' = NoEv
    /\ UNCHANGED <<suggestions, pageSpeakers, isApplyingAll, speakerReq, loading, srvNames, srvSuggestions, dismissed, remounts>>
    /\ UNCHANGED nonSpeakerVars

\* the check button of a row: the row takes the display name, the suggestion
\* leaves the list and saveSpeaker sends the name
HandleApplySuggestion(sp) ==
    /\ HasSuggestion(suggestions, sp)
    /\ speakerReq = NoSpeakerReq
    /\ LET suggestion == getSuggestionForSpeaker(suggestions, sp)
       IN  /\ speakers' = [speakers EXCEPT ![sp] = suggestion.display_name]
           /\ suggestions' = Without(suggestions, sp)
           /\ speakerReq' = [speakers |-> speakers, suggestions |-> {},
                             kind |-> "save", id |-> sp, name |-> suggestion.display_name]
           /\ ev' = [NoEv EXCEPT !.req = Req("updateSpeakerNames", sp, {}, suggestion.display_name)]
    /\ UNCHANGED <<pageSpeakers, isApplyingAll, loading, srvNames, srvSuggestions, dismissed, remounts>>
    /\ UNCHANGED nonSpeakerVars

\* updateSpeakerNames settles: onUpdate hands the page the rows of the render
\* that started the save with the saved name; a failure is only logged
SaveSpeakerDone(ok) ==
    /\ speakerReq.kind = "save"
    /\ speakerReq' = NoSpeakerReq
    /\ IF ok
       THEN /\ srvNames' = ServerUpdateNames(srvNames, speakerReq.id, speakerReq.name)
            /\ pageSpeakers' = [speakerReq.speakers EXCEPT ![speakerReq.id] = speakerReq.name]
            /\ ev' = NoEv
       ELSE /\ ev' = LogOnly("updateSpeakerNames")
            /\ UNCHANGED <<srvNames, pageSpeakers>>
    /\ UNCHANGED <<speakers, suggestions, isApplyingAll, loading, srvSuggestions, dismissed, remounts>>
    /\ UNCHANGED nonSpeakerVars

HandleApplyAll ==
    /\ suggestions # {}
    /\ ~isApplyingAll
    /\ speakerReq = NoSpeakerReq
    /\ isApplyingAll' = TRUE
    /\ speakerReq' = [speakers |-> speakers, suggestions |-> suggestions,
                      kind |-> "applyAll", id |-> 0, name |-> ""]
    /\ ev' = [NoEv EXCEPT !.req = Req("applyAllSpeakerSuggestions", 0, {}, "")]
    /\ UNCHANGED <<speakers, suggestions, pageSpeakers, loading, srvNames, srvSuggestions, dismissed, remounts>>
    /\ UNCHANGED nonSpeakerVars

\* apply-all settles: the rows take the names of the suggestions the handler
\* held, the list is emptied, the page gets the same names over the rows of
\* the handler's render; a failure is only logged
ApplyAllDone(ok) ==
    /\ speakerReq.kind = "applyAll"
    /\ speakerReq' = NoSpeakerReq
    /\ isApplyingAll' = FALSE
    /\ IF ok
       THEN /\ srvNames' = ServerApplyAllNames(srvNames, srvSuggestions)
            /\ srvSuggestions' = ServerApplyAllSuggestions(srvSuggestions)
            /\ speakers' = MapNames(speakers, speakerReq.suggestions)
            /\ suggestions' = {}
            /\ pageSpeakers' = MapNames(speakerReq.speakers, speakerReq.suggestions)
            /\ ev' = NoEv
       ELSE /\ ev' = LogOnly("applyAllSpeakerSuggestions")
            /\ UNCHANGED <<srvNames, srvSuggestions, speakers, suggestions, pageSpeakers>>
    /\ UNCHANGED <<loading, dismissed, remounts>>
    /\ UNCHANGED nonSpeakerVars

\* the X button of a row
HandleDismissSuggestion(sp) ==
    /\ HasSuggestion(suggestions, sp)
    /\ suggestions' = Without(suggestions, sp)
    /\ dismissed' = dismissed \cup {getSuggestionForSpeaker(suggestions, sp)}
    /\ ev' = NoEv
    /\ UNCHANGED <<speakers, pageSpeakers, isApplyingAll, speakerReq, loading, srvNames, srvSuggestions, remounts>>
    /\ UNCHANGED nonSpeakerVars

\* a cleanup run completed: the backend kept or rewrote suggestions.json, and
\* handleProcessingComplete changes the editor's key, so a new editor starts
\* from the page's speakers with no suggestions and loads them again
HandleProcessingComplete(rewritten, fresh) ==
    /\ remounts < MaxRemounts
    /\ speakerReq = NoSpeakerReq
    /\ ~loading
    /\ remounts' = remounts + 1
    /\ srvSuggestions' = IF rewritten THEN AsNamed(fresh) ELSE srvSuggestions
    /\ speakers' = pageSpeakers
    /\ suggestions' = {}
    /\ isApplyingAll' = FALSE
    /\ loading' = TRUE
    /\ ev' = [NoEv EXCEPT !.req = Req("getSpeakerSuggestions", 0, {}, "")]
    /\ UNCHANGED <<pageSpeakers, speakerReq, srvNames, dismissed>>
    /\ UNCHANGED nonSpeakerVars

\* ----------------------------------------------------------- MindmapViewer
\* the zoom factor is kept in steps of 1/ZoomUnit
ZoomUnit == 1000
MaxMarkdown == 2
MaxScheduled == 3

Min(a, b) == IF a < b THEN a ELSE b
Max(a, b) == IF a > b THEN a ELSE b

MaxZoom == 5 * ZoomUnit
MinZoom == ZoomUnit \div 5

\* `zoom * 1.3` and `zoom / 1.3`, rounded to the nearest step
Times13(z) == (z * 13 + 5) \div 10
Over13(z) == (z * 20 + 13) \div 26

ClampNone(z) == z
ClampHigh(z) == Min(z, MaxZoom)

ClampLow(z) == Max(z, MinZoom)

\* the two svg elements a diagram can be drawn on
Surfaces == {"inline", "fullscreen"}

\* `isFullscreen ? fullscreenMarkmapRef.current : markmapRef.current`
CurrentMarkmap == IF isFullscreen THEN fullscreenMarkmapRef ELSE markmapRef

\* svgRef.current / fullscreenSvgRef.current is set: the element is rendered
Attached(surface) == viewerMounted /\ (surface = "fullscreen" => isFullscreen)

\* markmapRefObj.current of a surface is set
RefOf(surface) == IF surface = "inline" THEN markmapRef ELSE fullscreenMarkmapRef

\* a callback handed to requestAnimationFrame or setTimeout: the frame an
\* effect asked for (outer: it reads the element from the ref when it runs) or
\* a retry of initMarkmapOnSvg, which holds its element and the markdown of
\* the render that made it; detached: that element has left the document
Callback(surface, md, via, outer, detached) ==
    [surface |-> surface, md |-> md, via |-> via, outer |-> outer, detached |-> detached]
EffectFrame(surface, md) == Callback(surface, md, "frame", TRUE, FALSE)
Retry(c, via) == Callback(c.surface, c.md, via, FALSE, c.detached)

\* the elements of a surface that left the document take their retries along
Detach(cs, surface) ==
    { IF c.surface = surface /\ ~c.outer THEN [c EXCEPT !.detached = TRUE] ELSE c : c \in cs }

\* what a step did, on which surface, with which markdown, and what ran it:
\* an effect's frame, a retry's frame or timeout, the user, or React
MmLog(op, surface, md, by) == [op |-> op, surface |-> surface, md |-> md, by |-> by]
NoMmLog == MmLog("none", "inline", 0, "none")
RanBy(c) == IF c.outer THEN "effect" ELSE c.via

\* what the start of initMarkmapOnSvg does with a box of zero width or height
ProceedsOnZeroBox(zero) == FALSE
RetriesOnZeroBox(zero) == zero

\* a scheduled callback runs: the effect's frame does nothing without its
\* element; initMarkmapOnSvg asks for another frame while the box is zero (a
\* detached element has a zero box), else sets the data of the surface's
\* diagram, or creates it, or, when Markmap.create throws, tries again 100 ms
\* later
RunScheduled(c, throws) ==
    /\ c \in scheduled
    /\ LET rest == scheduled \ {c}
           zero == c.detached \/ boxZero[c.surface]
       IN  IF c.outer /\ ~Attached(c.surface)
           THEN /\ scheduled' = rest
                /\ mmLog' = MmLog("skip", c.surface, c.md, RanBy(c))
                /\ UNCHANGED <<markmapRef, fullscreenMarkmapRef, data>>
           ELSE IF RetriesOnZeroBox(zero)
           THEN /\ scheduled' = rest \cup {Retry(c, "frame")}
                /\ mmLog' = MmLog("retry", c.surface, c.md, RanBy(c))
                /\ UNCHANGED <<markmapRef, fullscreenMarkmapRef, data>>
           ELSE IF RefOf(c.surface)
           THEN /\ scheduled' = rest
                /\ data' = [data EXCEPT ![c.surface] = c.md]
                /\ mmLog' = MmLog("setData", c.surface, c.md, RanBy(c))
                /\ UNCHANGED <<markmapRef, fullscreenMarkmapRef>>
           ELSE IF throws
           THEN /\ scheduled' = rest \cup {Retry(c, "timeout")}
                /\ mmLog' = MmLog("throw", c.surface, c.md, RanBy(c))
                /\ UNCHANGED <<markmapRef, fullscreenMarkmapRef, data>>
           ELSE /\ scheduled' = rest
                /\ markmapRef' = (markmapRef \/ c.surface = "inline")
                /\ fullscreenMarkmapRef' = (fullscreenMarkmapRef \/ c.surface = "fullscreen")
                /\ data' = [data EXCEPT ![c.surface] = c.md]
                /\ mmLog' = MmLog("create", c.surface, c.md, RanBy(c))
    /\ UNCHANGED <<zoom, isFullscreen, viewerMounted, markdown, boxZero>>
    /\ UNCHANGED nonZoomVars

\* the browser lays the surface out: its box becomes zero or nonzero
Layout(surface, zero) ==
    /\ viewerMounted
    /\ boxZero[surface] # zero
    /\ boxZero' = [boxZero EXCEPT ![surface] = zero]
    /\ mmLog' = NoMmLog
    /\ UNCHANGED <<zoom, isFullscreen, markmapRef, fullscreenMarkmapRef, viewerMounted,
                   markdown, scheduled, data>>
    /\ UNCHANGED nonZoomVars

\* the markdown prop changes: the cleanups of both effects destroy the
\* diagrams, then the effects run again and ask for a frame; nothing that was
\* scheduled before is cancelled
MarkdownChange ==
    /\ viewerMounted
    /\ markdown < MaxMarkdown
    /\ markdown' = markdown + 1
    /\ markmapRef' = FALSE
    /\ fullscreenMarkmapRef' = FALSE
    /\ data' = [s \in Surfaces |-> 0]
    /\ scheduled' = scheduled \cup {EffectFrame("inline", markdown + 1)}
                      \cup (IF isFullscreen THEN {EffectFrame("fullscreen", markdown + 1)} ELSE {})
    /\ Cardinality(scheduled') <= MaxScheduled
    /\ mmLog' = IF markmapRef THEN MmLog("destroy", "inline", data["inline"], "react")
                ELSE IF fullscreenMarkmapRef THEN MmLog("destroy", "fullscreen", data["fullscreen"], "react")
                ELSE NoMmLog
    /\ UNCHANGED <<zoom, isFullscreen, viewerMounted, boxZero>>
    /\ UNCHANGED nonZoomVars

\* the viewer leaves the page: the cleanups destroy the diagrams; the
\* callbacks stay scheduled, their elements are out of the document
ViewerUnmount ==
    /\ viewerMounted
    /\ viewerMounted' = FALSE
    /\ markmapRef' = FALSE
    /\ fullscreenMarkmapRef' = FALSE
    /\ data' = [s \in Surfaces |-> 0]
    /\ scheduled' = Detach(Detach(scheduled, "inline"), "fullscreen")
    /\ mmLog' = MmLog("unmount", "inline", 0, "react")
    /\ UNCHANGED <<zoom, isFullscreen, markdown, boxZero>>
    /\ UNCHANGED nonZoomVars

\* the fullscreen button: the overlay opens, the effect forgets the overlay's
\* diagram and asks for a frame
OpenFullscreen ==
    /\ viewerMounted
    /\ ~isFullscreen
    /\ isFullscreen' = TRUE
    /\ fullscreenMarkmapRef' = FALSE
    /\ scheduled' = scheduled \cup {EffectFrame("fullscreen", markdown)}
    /\ Cardinality(scheduled') <= MaxScheduled
    /\ mmLog' = MmLog("open", "fullscreen", markdown, "user")
    /\ UNCHANGED <<zoom, markmapRef, viewerMounted, markdown, boxZero, data>>
    /\ UNCHANGED nonZoomVars

\* Escape or the close button: the effect's cleanup destroys the overlay's
\* diagram, the overlay's svg element leaves the document
CloseFullscreen ==
    /\ viewerMounted
    /\ isFullscreen
    /\ isFullscreen' = FALSE
    /\ fullscreenMarkmapRef' = FALSE
    /\ data' = [data EXCEPT !["fullscreen"] = 0]
    /\ scheduled' = Detach(scheduled, "fullscreen")
    /\ mmLog' = IF fullscreenMarkmapRef THEN MmLog("destroy", "fullscreen", data["fullscreen"], "react")
                ELSE MmLog("close", "fullscreen", 0, "user")
    /\ UNCHANGED <<zoom, markmapRef, viewerMounted, markdown, boxZero>>
    /\ UNCHANGED nonZoomVars

\* a zoom button: nothing happens without a diagram on the surface in use
ZoomClick(op, newZoom) ==
    /\ viewerMounted
    /\ zoom' = IF CurrentMarkmap THEN newZoom ELSE zoom
    /\ mmLog' = MmLog(op, IF isFullscreen THEN "fullscreen" ELSE "inline", 0, "user")
    /\ UNCHANGED <<isFullscreen, markmapRef, fullscreenMarkmapRef, viewerMounted, markdown,
                   boxZero, scheduled, data>>
    /\ UNCHANGED nonZoomVars

HandleZoomIn == viewerMounted /\ ZoomClick("zoomIn", ClampHigh(Times13(zoom)))

HandleZoomOut == viewerMounted /\ ZoomClick("zoomOut", ClampLow(Over13(zoom)))

HandleFit == viewerMounted /\ ZoomClick("fit", ZoomUnit)

\* ------------------------------------------------- job detail page: load
\* how a request ends: a 2xx response, another status, or a rejected fetch
Outcomes == {"ok", "notok", "throw"}
ViewModes == {"original", "cleaned", "comparison"}
NoPageError == "null"
NoInsights == "null"

\* the message of the Error an api function throws
ErrorMessage(fn, outcome) ==
    IF outcome = "throw" THEN "Failed to fetch"
    ELSE CASE fn = "getTranscriptionDetail" -> "Transcription not found"
           [] fn = "getTranscriptData" -> "Transcript not found"
           [] fn = "getCleanedTranscript" -> "Cleaned transcript not found"
           [] fn = "listInsights" -> "Failed to list insights"
           [] OTHER -> "Insights not found"

\* checkCleanedExists: response.ok, and false when fetch rejects
checkCleanedExists(outcome) == outcome = "ok"

\* what the page renders
PageView ==
    IF pageIsLoading THEN "loading"
    ELSE IF error # NoPageError \/ ~transcription \/ ~transcript THEN "error"
    ELSE "transcript"

\* fetchData's catch and finally blocks
FetchFails(message) ==
    /\ error' = message
    /\ pageIsLoading' = FALSE
    /\ fetchAt' = "done"

\* fetchData's finally block alone
FetchEnds ==
    /\ pageIsLoading' = FALSE
    /\ fetchAt' = "done"
    /\ UNCHANGED error

\* one of the two requests of Promise.all settles: the first rejection ends
\* fetchData in its catch block, the second fulfilment stores both records;
\* what settles after a rejection is dropped
PrimaryDone(fn, outcome) ==
    /\ IF fn = "getTranscriptionDetail" THEN detailReq = "pending" ELSE dataReq = "pending"
    /\ detailReq' = IF fn = "getTranscriptionDetail" THEN outcome ELSE detailReq
    /\ dataReq' = IF fn = "getTranscriptData" THEN outcome ELSE dataReq
    /\ IF fetchAt # "primary"
       THEN UNCHANGED <<transcription, transcript, error, pageIsLoading, fetchAt>>
       ELSE IF outcome # "ok"
       THEN /\ FetchFails(ErrorMessage(fn, outcome))
            /\ UNCHANGED <<transcription, transcript>>
       ELSE IF detailReq' = "ok" /\ dataReq' = "ok"
       THEN /\ transcription' = TRUE
            /\ transcript' = TRUE
            /\ fetchAt' = "check"
            /\ UNCHANGED <<error, pageIsLoading>>
       ELSE UNCHANGED <<transcription, transcript, error, pageIsLoading, fetchAt>>
    /\ UNCHANGED <<cleanedTranscript, hasCleanedVersion, viewMode, insights, hasInsights,
                   fetchTpl, pageCalls>>
    /\ UNCHANGED nonPageVars

\* await checkCleanedExists(id)
CheckCleanedDone(outcome) ==
    /\ fetchAt = "check"
    /\ hasCleanedVersion' = checkCleanedExists(outcome)
    /\ fetchAt' = IF checkCleanedExists(outcome) THEN "cleaned" ELSE "list"
    /\ UNCHANGED <<transcription, transcript, cleanedTranscript, viewMode, pageIsLoading, error,
                   insights, hasInsights, detailReq, dataReq, fetchTpl, pageCalls>>
    /\ UNCHANGED nonPageVars

\* await getCleanedTranscript(id), inside the outer try block
GetCleanedDone(outcome) ==
    /\ fetchAt = "cleaned"
    /\ IF outcome = "ok"
       THEN /\ cleanedTranscript' = TRUE
            /\ viewMode' = "cleaned"
            /\ fetchAt' = "list"
            /\ UNCHANGED <<error, pageIsLoading>>
       ELSE /\ FetchFails(ErrorMessage("getCleanedTranscript", outcome))
            /\ UNCHANGED <<cleanedTranscript, viewMode>>
    /\ UNCHANGED <<transcription, transcript, hasCleanedVersion, insights, hasInsights,
                   detailReq, dataReq, fetchTpl, pageCalls>>
    /\ UNCHANGED nonPageVars

\* await listInsights(id), inside the inner try block: list is the sequence of
\* template ids of the insights found
ListInsightsDone(outcome, list) ==
    /\ fetchAt = "list"
    /\ IF outcome = "ok" /\ Len(list) > 0
       THEN /\ hasInsights' = TRUE
            /\ fetchTpl' = list[1]
            /\ fetchAt' = "insights"
            /\ UNCHANGED <<error, pageIsLoading>>
       ELSE /\ FetchEnds
            /\ UNCHANGED <<hasInsights, fetchTpl>>
    /\ UNCHANGED <<transcription, transcript, cleanedTranscript, hasCleanedVersion, viewMode,
                   insights, detailReq, dataReq, pageCalls>>
    /\ UNCHANGED nonPageVars

\* await getInsights(id, insightsList[0].template_id), inside the inner try block
GetInsightsDone(outcome) ==
    /\ fetchAt = "insights"
    /\ insights' = IF outcome = "ok" THEN fetchTpl ELSE insights
    /\ FetchEnds
    /\ UNCHANGED <<transcription, transcript, cleanedTranscript, hasCleanedVersion, viewMode,
                   hasInsights, detailReq, dataReq, fetchTpl, pageCalls>>
    /\ UNCHANGED nonPageVars

\* the tabs of the transcript card, rendered when a cleaned version exists
SetViewMode(mode) ==
    /\ PageView = "transcript" /\ hasCleanedVersion
    /\ mode # viewMode
    /\ viewMode' = mode
    /\ UNCHANGED <<transcription, transcript, cleanedTranscript, hasCleanedVersion,
                   pageIsLoading, error, insights, hasInsights,
                   fetchAt, detailReq, dataReq, fetchTpl, pageCalls>>
    /\ UNCHANGED nonPageVars

\* a stage control calls handleProcessingComplete (tpl "") or
\* handleInsightsComplete(tpl): the handler's request is in flight (calls of
\* one handler with one template are not told apart)
CompletionCall(fn, tpl) ==
    /\ PageView = "transcript"
    /\ <<fn, tpl>> \notin pageCalls
    /\ pageCalls' = pageCalls \cup {<<fn, tpl>>}
    /\ UNCHANGED <<transcription, transcript, cleanedTranscript, hasCleanedVersion, viewMode,
                   pageIsLoading, error, insights, hasInsights,
                   fetchAt, detailReq, dataReq, fetchTpl>>
    /\ UNCHANGED nonPageVars

\* the request of a completion handler settles; a failure is only logged
CompletionDone(call, outcome) ==
    /\ call \in pageCalls
    /\ pageCalls' = pageCalls \ {call}
    /\ IF outcome # "ok"
       THEN UNCHANGED <<cleanedTranscript, hasCleanedVersion, viewMode, insights, hasInsights>>
       ELSE IF call[1] = "handleProcessingComplete"
       THEN /\ cleanedTranscript' = TRUE
            /\ hasCleanedVersion' = TRUE
            /\ viewMode' = "cleaned"
            /\ UNCHANGED <<insights, hasInsights>>
       ELSE /\ insights' = call[2]
            /\ hasInsights' = TRUE
            /\ UNCHANGED <<cleanedTranscript, hasCleanedVersion, viewMode>>
    /\ UNCHANGED <<transcription, transcript, pageIsLoading, error,
                   fetchAt, detailReq, dataReq, fetchTpl>>
    /\ UNCHANGED nonPageVars

\* -------------------------------------------- TranscriptPanel: scroll sync
MaxSegments == 3
MaxTime == 3

Times == 0..MaxTime

\* the start times of a panel's segments, in ascending order
SortedSegments ==
    { seq \in UNION { [1..n -> Times] : n \in 0..MaxSegments } :
        \A k \in 1..(Len(seq) - 1) : seq[k] <= seq[k + 1] }

\* segments[i].start, i counted from 0
StartOf(i) == segments[i + 1]

\* `left = mid + 1` that leaves left where it is
NextLeftSame(mid) == mid
NextLeft(mid) == mid + 1

\* scrollToTimestamp up to the loop's first test
ScrollToTimestamp(segs, ts) ==
    /\ searchPc = "idle"
    /\ segments' = segs
    /\ timestamp' = ts
    /\ left' = 0
    /\ right' = Len(segs) - 1
    /\ nearest' = 0
    /\ searchPc' = IF left' <= right' THEN "loop" ELSE "scroll"
    /\ passes' = 0
    /\ UNCHANGED scrolledTo
    /\ UNCHANGED nonSearchVars

\* one pass through the loop body and the test that follows it
Iterate ==
    /\ searchPc = "loop"
    /\ LET mid == (left + right) \div 2
           midTime == StartOf(mid)
       IN  IF midTime = timestamp
           THEN /\ nearest' = mid
                /\ searchPc' = "scroll"
                /\ UNCHANGED <<left, right>>
           ELSE /\ IF midTime < timestamp
                   THEN /\ nearest' = mid
                        /\ left' = NextLeft(mid)
                        /\ UNCHANGED right
                   ELSE /\ right' = mid - 1
                        /\ UNCHANGED <<left, nearest>>
                /\ searchPc' = IF left' <= right' THEN "loop" ELSE "scroll"
    /\ passes' = passes + 1
    /\ UNCHANGED <<segments, timestamp, scrolledTo>>
    /\ UNCHANGED nonSearchVars

\* segmentRefs.current.get(nearest), scrolled into view when it exists
ScrollIntoView ==
    /\ searchPc = "scroll"
    /\ scrolledTo' = IF nearest < Len(segments) THEN nearest ELSE -1
    /\ searchPc' = "idle"
    /\ UNCHANGED <<segments, timestamp, left, right, nearest, passes>>
    /\ UNCHANGED nonSearchVars

\* ---------------------------------------------------------- specification
\* what fetchData found on the backend: per stage no artifact, or one made with
\* the first template in an earlier session
Shown == [Stages -> {"none", FirstTemplate}]

InitStages ==
    /\ pageMounted = TRUE
    /\ shown \in Shown
    /\ hasResult = [s \in Stages |-> shown[s] # "none"]
    /\ selected = [s \in Stages |-> ""]
    /\ isProcessing = BoolFn(FALSE)
    /\ showConfirm = BoolFn(FALSE)
    /\ runs = <<>>
    /\ toast = NoToast

InitQueue ==
    /\ transcriptions = <<>>
    /\ isLoading = TRUE
    /\ selectedIds = {}
    /\ expandedSections = [queued |-> FALSE, inProgress |-> TRUE, completed |-> FALSE, draft |-> TRUE]
    /\ isStarting = FALSE
    /\ pending = {}
    /\ prompts = <<>>
    /\ ev = NoEv

InitUpload ==
    /\ files = <<>>
    /\ uploadError = NoError
    /\ isUploading = FALSE
    /\ uploadProgress = 0
    /\ uploadRun = NoRun
    /\ submitted = {}
    /\ addedCount = [f \in FileIds |-> 0]
    /\ acceptedCount = [f \in FileIds |-> 0]

\* the job page opened after a cleanup run that proposed a name for every
\* speaker: the editor is mounted and its loadSuggestions is in flight
InitSpeakers ==
    /\ speakers = [sp \in SpeakerIds |-> DefaultName]
    /\ suggestions = {}
    /\ pageSpeakers = [sp \in SpeakerIds |-> DefaultName]
    /\ isApplyingAll = FALSE
    /\ speakerReq = NoSpeakerReq
    /\ loading = TRUE
    /\ srvNames = [sp \in SpeakerIds |-> DefaultName]
    /\ srvSuggestions = { Suggestion(sp, ProposedName(sp), FALSE) : sp \in SpeakerIds }
    /\ dismissed = {}
    /\ remounts = 0

InitZoom ==
    /\ zoom = ZoomUnit
    /\ isFullscreen = FALSE
    /\ markmapRef = FALSE
    /\ fullscreenMarkmapRef = FALSE
    /\ viewerMounted = TRUE
    /\ markdown = 1
    /\ boxZero = [s \in Surfaces |-> FALSE]
    /\ scheduled = {EffectFrame("inline", 1)}
    /\ data = [s \in Surfaces |-> 0]
    /\ mmLog = NoMmLog

\* the job page right after its first render: fetchData has sent its two
\* first requests
InitPage ==
    /\ transcription = FALSE
    /\ transcript = FALSE
    /\ cleanedTranscript = FALSE
    /\ hasCleanedVersion = FALSE
    /\ viewMode = "original"
    /\ pageIsLoading = TRUE
    /\ error = NoPageError
    /\ insights = NoInsights
    /\ hasInsights = FALSE
    /\ fetchAt = "primary"
    /\ detailReq = "pending"
    /\ dataReq = "pending"
    /\ fetchTpl = ""
    /\ pageCalls = {}

\* no call of scrollToTimestamp made yet
InitSearch ==
    /\ segments = <<>>
    /\ timestamp = 0
    /\ left = 0
    /\ right = -1
    /\ nearest = 0
    /\ searchPc = "idle"
    /\ scrolledTo = -1
    /\ passes = 0

Init ==
    InitStages /\ InitQueue /\ InitUpload /\ InitSpeakers /\ InitZoom /\ InitPage /\ InitSearch

\* the job detail page: two stage controls, up to MaxRuns runs, scaled ceilings
Next ==
    \/ \E s \in Stages : ClickStart(s, ScaledPolls(s), MaxRuns)
    \/ \E s \in Stages : ClickYes(s, ScaledPolls(s), MaxRuns)
    \/ \E s \in Stages : ClickNo(s)
    \/ \E r \in RunIds, ok \in BOOLEAN, d \in Msgs : StartResp(r, ok, d)
    \/ \E r \in RunIds : TickFire(r, MaxInFlight)
    \/ \E r \in RunIds : \E resp \in ArtifactResponses(runs[r].tpl) : TickArtifactResp(r, resp)
    \/ \E r \in RunIds : \E resp \in OpsResponses : TickOpsResp(r, resp)
    \/ \E r \in RunIds, ok \in BOOLEAN : CallbackResolve(r, ok)
    \/ \E s \in Stages : LoadTemplates(s)
    \/ \E s \in Stages, t \in Templates : SelectTemplate(s, t)
    \/ PageUnmount

Spec == Init /\ [][Next]_vars

\* one run at a time with the ceilings of the source (500 and 60 polls)
NextCeiling ==
    \/ \E s \in Stages : ClickStart(s, maxPolls(s), 1)
    \/ \E s \in Stages : ClickYes(s, maxPolls(s), 1)
    \/ \E s \in Stages : LoadTemplates(s)
    \/ \E r \in RunIds : StartResp(r, TRUE, "")
    \/ \E r \in RunIds : TickFire(r, 1)
    \/ \E r \in RunIds : \E resp \in ArtifactResponses(runs[r].tpl) : TickArtifactResp(r, resp)
    \/ \E r \in RunIds : \E resp \in OpsResponses : TickOpsResp(r, resp)

SpecCeiling == Init /\ [][NextCeiling]_vars

\* one run at a time whose poll requests outlast the 2-second interval: up to
\* MaxOverlap ticks of the run wait for a response at once
NextOverlap ==
    \/ \E s \in Stages : ClickStart(s, ScaledPolls(s), 1)
    \/ \E s \in Stages : LoadTemplates(s)
    \/ \E r \in RunIds : StartResp(r, TRUE, "")
    \/ \E r \in RunIds : TickFire(r, MaxOverlap)
    \/ \E r \in RunIds : \E resp \in ArtifactResponses(runs[r].tpl) : TickArtifactResp(r, resp)
    \/ \E r \in RunIds : \E resp \in OpsResponses : TickOpsResp(r, resp)
    \/ \E r \in RunIds, ok \in BOOLEAN : CallbackResolve(r, ok)

SpecOverlap == Init /\ [][NextOverlap]_vars

\* the queue view: every poll replaces the list
NextQueue ==
    \/ \E f \in QueueLists : FetchQueue(AsJobs(f))
    \/ FetchQueueFail

SpecQueue == Init /\ [][NextQueue]_vars

\* the queue view with its handlers
NextQueueUi ==
    \/ \E js \in UiQueueLists : FetchQueue(js)
    \/ FetchQueueFail
    \/ \E k \in ToggledKeys : ToggleSection(k)
    \/ \E i \in JobIds : ToggleSelect(i)
    \/ ClickStartSelected
    \/ ClickStartAll
    \/ \E p \in pending, ok \in BOOLEAN : StartDone(p, ok)
    \/ \E p \in pending, js \in UiQueueLists, ok \in BOOLEAN : RefetchDone(p, js, ok)
    \/ \E i \in JobIds : ClickDelete(i)
    \/ \E p \in pending, ok \in BOOLEAN : DeleteDone(p, ok)
    \/ \E scope \in Scopes, accepted \in BOOLEAN : ClickClearHistory(scope, accepted)
    \/ \E p \in pending, outcome \in {"ok", "http", "throw"} : ClearDone(p, outcome)
    \/ \E i \in JobIds, text \in Texts : EditPrompt(i, text)
    \/ \E i \in JobIds : BlurPrompt(i)
    \/ \E p \in pending, ok \in BOOLEAN : SaveDone(p, ok)

\* the upload card
NextUpload ==
    \/ \E sel \in Selections : HandleDrop(sel)
    \/ \E sel \in Selections : HandleFileSelect(sel)
    \/ \E index \in 1..MaxFiles : RemoveFile(index)
    \/ ClearAllFiles
    \/ HandleUpload
    \/ \E ok \in BOOLEAN : UploadDone(ok)

\* the speaker editor of the job page
NextSpeakers ==
    \/ \E ok \in BOOLEAN : LoadSuggestionsDone(ok)
    \/ \E sp \in SpeakerIds : HandleNameChange(sp, TypedName)
    \/ \E sp \in SpeakerIds : HandleApplySuggestion(sp)
    \/ \E ok \in BOOLEAN : SaveSpeakerDone(ok)
    \/ HandleApplyAll
    \/ \E ok \in BOOLEAN : ApplyAllDone(ok)
    \/ \E sp \in SpeakerIds : HandleDismissSuggestion(sp)
    \/ \E rewritten \in BOOLEAN, fresh \in FreshSuggestions : HandleProcessingComplete(rewritten, fresh)

\* the mind map viewer
NextZoom ==
    \/ \E c \in scheduled : RunScheduled(c, FALSE)
    \/ OpenFullscreen
    \/ CloseFullscreen
    \/ HandleZoomIn
    \/ HandleZoomOut
    \/ HandleFit

\* the job page is not part of this view: it starts without artifacts
InitQueueUi == Init /\ shown = [s \in Stages |-> "none"]

SpecQueueUi == InitQueueUi /\ [][NextQueueUi]_vars

SpecUpload == InitQueueUi /\ [][NextUpload]_vars

SpecSpeakers == InitQueueUi /\ [][NextSpeakers]_vars

\* the mind map viewer's diagrams: layout, markdown changes, unmount
NextMindmap ==
    \/ \E c \in scheduled, throws \in BOOLEAN : RunScheduled(c, throws)
    \/ \E surface \in Surfaces, zero \in BOOLEAN : Layout(surface, zero)
    \/ MarkdownChange
    \/ ViewerUnmount
    \/ OpenFullscreen
    \/ CloseFullscreen

SpecZoom == InitQueueUi /\ [][NextZoom]_vars

SpecMindmap == InitQueueUi /\ [][NextMindmap]_vars

\* the insights lists the backend returns, newest first
InsightLists == {<<>>} \cup { <<t>> : t \in Templates } \cup { <<t, u>> : t, u \in Templates }

\* the load of the job detail page and the reloads after a completed run
NextPage ==
    \/ \E fn \in {"getTranscriptionDetail", "getTranscriptData"}, outcome \in Outcomes :
          PrimaryDone(fn, outcome)
    \/ \E outcome \in Outcomes : CheckCleanedDone(outcome)
    \/ \E outcome \in Outcomes : GetCleanedDone(outcome)
    \/ \E outcome \in Outcomes, list \in InsightLists : ListInsightsDone(outcome, list)
    \/ \E outcome \in Outcomes : GetInsightsDone(outcome)
    \/ \E mode \in ViewModes : SetViewMode(mode)
    \/ CompletionCall("handleProcessingComplete", "")
    \/ \E tpl \in Templates : CompletionCall("handleInsightsComplete", tpl)
    \/ \E call \in pageCalls, outcome \in Outcomes : CompletionDone(call, outcome)

SpecPage == InitQueueUi /\ [][NextPage]_vars

\* calls of scrollToTimestamp on sorted segments, with timestamps before,
\* between, at and after the start times
NextSearch ==
    \/ \E segs \in SortedSegments, ts \in 0..(MaxTime + 1) : ScrollToTimestamp(segs, ts)
    \/ Iterate
    \/ ScrollIntoView

SpecSearch == InitQueueUi /\ [][NextSearch]_vars

\* ================================================================ claims
\* a step in which run r raises a terminal notification
TerminalStep(r) == runs'[r].nTerm = runs[r].nTerm + 1

\* a step in which run r reaches its success or failed terminal state
VerdictStep(r) == TerminalStep(r) /\ runs'[r].outcome \in {"success", "failed"}

\* a step in which run r's completion callback is called
CallbackStep(r) == runs'[r].nDone = runs[r].nDone + 1

\* a step in which run r sends a poll request
PollStep(r) == runs'[r].awaitA > runs[r].awaitA \/ runs'[r].awaitB > runs[r].awaitB

\* a step in which a tick of run r consumes its operations (artifact) response
OpsTickStep(r) == runs'[r].awaitB = runs[r].awaitB - 1
ArtifactTickStep(r) == runs'[r].awaitA = runs[r].awaitA - 1

\* a cleanup tick of run r receives the newest operation record, created at or
\* after the run's start timestamp
CleanupFreshTick(r, resp) ==
    /\ runs[r].stage = "cleanup"
    /\ resp.kind = "ok" /\ resp.op.at >= runs[r].startTime
    /\ TickOpsResp(r, resp)

C1_Terminal(r, resp) ==
    /\ resp.op.status = "success" =>
          /\ runs'[r].phase = "stopped"
          /\ ~isProcessing'["cleanup"]
          /\ CallbackStep(r) /\ runs'[r].cb = runs[r].cb + 1
    /\ resp.op.status = "failed" =>
          /\ runs'[r].phase = "stopped"
          /\ ~isProcessing'["cleanup"]
          /\ ~CallbackStep(r)
          /\ toast' = [level |-> "error",
                       text |-> <<"Post-processing failed: ",
                                  IF resp.op.err = "" THEN "Unknown error" ELSE resp.op.err>>]

\* C1 as stated: on a cleanup tick whose newest operation record was created at
\* or after the start timestamp, success stops the loop, clears the processing
\* flag and calls the completion callback; failed stops the loop, clears the
\* flag and surfaces the server's error message; any other status keeps the
\* loop polling.
C1_Original ==
    [][\A r \in RunIds : OpsTickStep(r) => \A resp \in OpsResponses :
          CleanupFreshTick(r, resp) =>
             /\ C1_Terminal(r, resp)
             /\ resp.op.status \notin {"success", "failed"} =>
                   runs'[r].phase = runs[r].phase]_vars

\* C1 as amended: as C1, except that with any other status the loop keeps
\* polling only below the poll ceiling; on the tick that reaches maxPolls it
\* stops, clears the flag and reports a timeout.
C1_Amended ==
    [][\A r \in RunIds : OpsTickStep(r) => \A resp \in OpsResponses :
          CleanupFreshTick(r, resp) =>
             /\ C1_Terminal(r, resp)
             /\ resp.op.status \notin {"success", "failed"} =>
                   IF runs[r].pollCount >= runs[r].maxPolls
                   THEN /\ runs'[r].phase = "stopped"
                        /\ runs'[r].outcome = "timeout"
                        /\ ~isProcessing'["cleanup"]
                        /\ ~CallbackStep(r)
                        /\ toast' = [level |-> "error", text |-> <<"Post-processing timed out">>]
                   ELSE runs'[r].phase = runs[r].phase]_vars

\* a cleanup run has just stopped on a success record: flag cleared, success
\* notification up, completion callback pending
C1_Witness ==
    \E r \in RunIds :
        /\ runs[r].stage = "cleanup" /\ runs[r].outcome = "success"
        /\ runs[r].cb = 1 /\ ~isProcessing["cleanup"]
        /\ toast = [level |-> "success", text |-> <<"Post-processing complete!">>]

\* C2 as stated: once the maxPolls-th tick of a run (500 for cleanup, 60 for
\* insights) has run to its end, the loop has stopped, whatever the poll
\* requests returned or threw.
C2_Claim ==
    \A r \in RunIds :
        (runs[r].phase = "polling" /\ runs[r].awaitA + runs[r].awaitB = 0)
            => runs[r].pollCount < runs[r].maxPolls

\* C3: a tick that receives an operation record or an artifact created before
\* the run's start timestamp never takes the run to success or failed.
C3_NoStaleBasis ==
    [][\A r \in RunIds :
          VerdictStep(r) =>
             /\ \A resp \in OpsResponses :
                   (resp.kind = "ok" /\ resp.op.at < runs[r].startTime)
                       => ~TickOpsResp(r, resp)
             /\ \A resp \in ArtifactResponses(runs[r].tpl) :
                   (resp.kind = "ok" /\ resp.at < runs[r].startTime)
                       => ~TickArtifactResp(r, resp)]_vars

\* a second run, for which the first run's records are stale, reached success
C3_Witness ==
    \E r \in RunIds :
        /\ runs[r].startTime = 2 /\ runs[r].outcome = "success"
        /\ runs[1].stage = runs[r].stage /\ runs[1].tpl = runs[r].tpl

\* C4 as stated (cleanup and insights loops): a run whose view has unmounted or
\* whose loop has reached a terminal condition sends no further poll request.
C4_Claim ==
    [][\A r \in RunIds :
          (runs[r].owner # "comp" \/ runs[r].phase = "stopped") => ~PollStep(r)]_vars

\* C5 as stated: while a cleanup run and an insights run poll at the same time,
\* a tick that receives an operation record of the other stage never takes its
\* run to success or failed.
C5_Claim ==
    [][\A r \in RunIds : VerdictStep(r) => \A resp \in OpsResponses :
          ( /\ resp.kind = "ok" /\ resp.op.type # runs[r].stage
            /\ \E q \in RunIds : runs[q].stage = resp.op.type /\ runs[q].phase = "polling" )
              => ~TickOpsResp(r, resp)]_vars

\* an insights tick of run r receives the newest operation record, created at
\* or after the run's start timestamp, with the given status
InsightsFreshTick(r, resp, status) ==
    /\ runs[r].stage = "insights"
    /\ resp.kind = "ok" /\ resp.op.at >= runs[r].startTime
    /\ resp.op.status = status
    /\ TickOpsResp(r, resp)

StartRequestStep(s) ==
    Len(runs') = Len(runs) + 1 /\ runs'[Len(runs')].stage = s

\* C8: with a prior result, activating start only opens the confirm step and
\* issues no start request; No closes the confirm step and changes nothing
\* else (no request, artifact and has-result flag as they were); a start
\* request for a stage with a prior result is issued only from the confirm
\* step, that is by Yes.
C8_ConfirmBeforeRerun ==
    [][\A s \in Stages :
          /\ (hasResult[s] /\ ClickStart(s, ScaledPolls(s), MaxRuns))
                => /\ showConfirm'[s]
                   /\ runs' = runs /\ isProcessing' = isProcessing
                   /\ hasResult' = hasResult /\ shown' = shown
          /\ ClickNo(s)
                => /\ ~showConfirm'[s]
                   /\ runs' = runs /\ isProcessing' = isProcessing
                   /\ hasResult' = hasResult /\ shown' = shown
          /\ (hasResult[s] /\ StartRequestStep(s)) => showConfirm[s]]_vars

\* the confirm step of a stage with a prior result is open and no start
\* request for that stage has been issued
C8_Witness ==
    \E s \in Stages :
        /\ hasResult[s] /\ showConfirm[s] /\ ~isProcessing[s]
        /\ \A r \in RunIds : runs[r].stage # s

SectionsOf(t) ==
    { n \in {"drafts", "queued", "inProgress", "completed"} :
        LET sec == CASE n = "drafts" -> drafts
                     [] n = "queued" -> queued
                     [] n = "inProgress" -> inProgress
                     [] OTHER -> completed
        IN  \E j \in DOMAIN sec : sec[j] = t }

\* C10: when every job of the fetched list has one of the six statuses, each
\* job is in exactly one of the four sections, processing and diarizing jobs
\* are both in the in-progress section, and the section counts sum to the
\* length of the list.
C10_SectionsPartition ==
    (\A i \in DOMAIN transcriptions : transcriptions[i].status \in JobStatuses) =>
        /\ \A i \in DOMAIN transcriptions :
              /\ Cardinality(SectionsOf(transcriptions[i])) = 1
              /\ transcriptions[i].status \in {"processing", "diarizing"}
                    => SectionsOf(transcriptions[i]) = {"inProgress"}
        /\ Len(drafts) + Len(queued) + Len(inProgress) + Len(completed)
              = Len(transcriptions)

\* a fetched list of three jobs, one processing, one diarizing, one draft
C10_Witness ==
    /\ ~isLoading /\ Len(transcriptions) = 3
    /\ \A i \in DOMAIN transcriptions : transcriptions[i].status \in JobStatuses
    /\ \E i, j, k \in DOMAIN transcriptions :
          /\ transcriptions[i].status = "processing"
          /\ transcriptions[j].status = "diarizing"
          /\ transcriptions[k].status = "draft"

\* a step that re-fetches the queue: the polling effect's fetchQueue (interval
\* tick or refreshTrigger change) or a fetchQueue called by a handler
RefetchStep ==
    \/ \E js \in UiQueueLists : FetchQueue(js)
    \/ FetchQueueFail
    \/ \E p \in pending : \E js \in UiQueueLists, ok \in BOOLEAN : RefetchDone(p, js, ok)

HasJob(js, i) == \E j \in DOMAIN js : js[j].id = i

\* C11: a queue re-fetch leaves the set of selected ids and the sections'
\* expanded flags as they were, so every selected job that is still in the
\* new list stays selected.
C11_RefetchKeepsUiState ==
    [][(isLoading' = FALSE /\ ev' = NoEv /\ RefetchStep) =>
          /\ selectedIds' = selectedIds
          /\ expandedSections' = expandedSections
          /\ \A i \in selectedIds : HasJob(transcriptions', i) => i \in selectedIds']_vars

\* after a fetch the list holds a selected job and a job that left the
\* selection's list, with the completed section opened by the user
C11_Witness ==
    /\ ~isLoading /\ selectedIds = {1, 2}
    /\ HasJob(transcriptions, 1) /\ ~HasJob(transcriptions, 2)
    /\ expandedSections.completed

\* C12: a bulk history delete request is sent only in a step whose
\* confirmation prompt, for the same scope, was accepted; a declined prompt
\* sends nothing and leaves the job list and the requests in flight unchanged.
C12_ClearNeedsConfirm ==
    [][/\ ev'.req.kind = "clear" => (ev'.asked = ev'.req.text /\ ev'.answer)
       /\ (ev'.asked # "none" /\ ~ev'.answer) =>
             /\ ev'.req = NoReq
             /\ transcriptions' = transcriptions
             /\ pending' = pending]_vars

\* a "clear failed" request has just been sent after its prompt was accepted
C12_Witness ==
    /\ ev.req = Req("clear", 0, {}, "failed")
    /\ ev.asked = "failed" /\ ev.answer
    /\ Req("clear", 0, {}, "failed") \in pending

\* C15 as stated: every failure of a user-triggered request raises a
\* user-visible notification.
C15_Claim == ev.fail # "none" => ev.notice # "none"

\* C16: typing in a draft's context field sends no request; a blur sends
\* exactly one update request if and only if the text differs from the
\* context stored in the job; saving sends no start request and leaves the
\* job list, hence every job's status, unchanged.
C16_SaveOnBlur ==
    [][/\ (\E i \in DOMAIN prompts \cap DOMAIN prompts' : prompts'[i] # prompts[i])
             => (ev'.req = NoReq /\ pending' = pending)
       /\ \A i \in DOMAIN prompts : BlurPrompt(i) =>
             /\ IF prompts[i] # StoredContext(JobOf(transcriptions, i))
                THEN /\ ev'.req = Req("save", i, {}, prompts[i])
                     /\ pending' = pending \cup {ev'.req}
                ELSE ev'.req = NoReq /\ pending' = pending
             /\ transcriptions' = transcriptions /\ isStarting' = isStarting
       /\ \A p \in pending : p.kind = "save" =>
             \A ok \in BOOLEAN : SaveDone(p, ok) =>
                /\ transcriptions' = transcriptions /\ isStarting' = isStarting
                /\ ev'.req = NoReq
                /\ \A q \in pending' \ pending : q.kind = "refetch"]_vars

\* a blur has just sent the update request for an edited context, the job is
\* still a draft with its old stored context
C16_Witness ==
    \E i \in DOMAIN prompts :
        /\ ev.req = Req("save", i, {}, "ctx")
        /\ prompts[i] = "ctx"
        /\ JobOf(transcriptions, i).status = "draft"
        /\ JobOf(transcriptions, i).initial_prompt = NullPrompt

\* C13: the files of one upload are sent one at a time in list order, request
\* i+1 only in the step that handles the success of request i; while the upload
\* runs the progress shown is k/N after k successes; a failed request ends the
\* upload with the error shown, no further request, and nothing the backend
\* accepted taken back; no request other than an upload is ever sent
C13_SequentialUpload ==
    [][ /\ ev'.req # NoReq =>
            /\ ev'.req.kind = "upload"
            /\ uploadRun'.i > 0
            /\ ev'.req.id = uploadRun'.list[uploadRun'.i]
            /\ \/ /\ uploadRun.i = 0
                  /\ uploadRun'.i = 1
                  /\ uploadRun'.list = files
               \/ /\ uploadRun.i > 0
                  /\ uploadRun'.i = uploadRun.i + 1
                  /\ uploadRun'.list = uploadRun.list
                  /\ ev'.fail = "none"
                  /\ uploadRun.list[uploadRun.i] \in submitted'
        /\ isUploading' =>
            uploadProgress' = Percent(uploadRun'.i - 1, Len(uploadRun'.list))
        /\ ev'.fail = "upload" =>
            /\ ev'.req = NoReq
            /\ ~isUploading'
            /\ uploadRun' = NoRun
            /\ uploadError' # NoError
            /\ submitted' = submitted
        /\ submitted \subseteq submitted'
      ]_vars

\* the second file of an upload failed after the first was accepted
C13_Witness ==
    /\ ev.fail = "upload"
    /\ Len(files) >= 2
    /\ files[1] \in submitted
    /\ files[2] \notin submitted
    /\ uploadError = "Upload failed"

\* C14: a selection that holds a file without an allow-listed extension never
\* puts that file in the pending list or in a request, and leaves an inline
\* error on screen
C14_Claim ==
    [][ \A sel \in Selections :
            ((HandleDrop(sel) \/ HandleFileSelect(sel)) /\ \E k \in DOMAIN sel : ~isAudioFile(sel[k]))
            => /\ \A k \in DOMAIN files' : isAudioFile(files'[k])
               /\ ev'.req = NoReq
               /\ uploadError' # NoError
      ]_vars

\* C17: applying one suggestion removes that suggestion and no other from the
\* pending set, gives that speaker's row the suggested display name, leaves
\* the other rows as they were, and sends the save of that name for that
\* speaker in the same step
C17_ApplyOne ==
    [][ \A sp \in SpeakerIds :
            HandleApplySuggestion(sp) =>
                LET suggestion == getSuggestionForSpeaker(suggestions, sp)
                IN  /\ suggestions' = suggestions \ {suggestion}
                    /\ speakers'[sp] = suggestion.display_name
                    /\ \A q \in SpeakerIds \ {sp} : speakers'[q] = speakers[q]
                    /\ ev'.req = Req("updateSpeakerNames", sp, {}, suggestion.display_name)
      ]_vars

\* one of two pending suggestions was applied next to a row typed by hand
C17_Witness ==
    /\ speakerReq.kind = "save"
    /\ speakerReq.id = 1
    /\ speakers = <<"Alice", TypedName>>
    /\ suggestions = {Suggestion(2, "Bob", FALSE)}

\* C18: when apply-all succeeds the pending set is empty and every speaker the
\* backend held an unapplied suggestion for shows that suggestion's display
\* name, whether or not the suggestion was still pending in the editor
C18_Claim ==
    [][ (isApplyingAll /\ ~isApplyingAll' /\ ev'.fail = "none" /\ remounts' = remounts) =>
            /\ suggestions' = {}
            /\ \A s \in Loadable(srvSuggestions) : speakers'[s.speaker_id] = s.display_name
            /\ \A sp \in SpeakerIds : HasSuggestion(Loadable(srvSuggestions), sp) => speakers'[sp] = srvNames'[sp]
      ]_vars

\* C19: dismissing a suggestion sends nothing, and a suggestion dismissed on
\* this page is never pending again, also after a cleanup run completed and
\* the editor loaded its suggestions anew
C19_Claim ==
    [][ /\ \A sp \in SpeakerIds : HandleDismissSuggestion(sp) => ev'.req = NoReq
        /\ dismissed \cap suggestions' = {}
      ]_vars

\* C20: from 1x, whatever zoom-in, zoom-out and fit do, the zoom factor stays
\* between 0.2 and 5; zoom-in at 5 leaves 5 and zoom-out at 0.2 leaves 0.2
C20_ZoomRange ==
    [][ /\ MinZoom <= zoom' /\ zoom' <= MaxZoom
        /\ (HandleZoomIn /\ zoom = MaxZoom) => zoom' = MaxZoom
        /\ (HandleZoomOut /\ zoom = MinZoom) => zoom' = MinZoom
      ]_vars

\* zoom-in was cut off at 5 in the overlay
C20_Witness == zoom = MaxZoom /\ isFullscreen /\ fullscreenMarkmapRef /\ mmLog.op = "zoomIn"

\* C21: a click on Fit sets the zoom factor to 1x, whatever it was and
\* whichever surface is in use
C21_Claim == [][HandleFit => zoom' = ZoomUnit]_vars

\* C22: while the viewer is mounted a change of the markdown leaves the
\* existing diagrams in place (their data is updated later); opening the
\* overlay forgets the overlay's diagram so that a new one is created, and
\* closing the overlay destroys it
C22_Claim ==
    [][ /\ (markdown' # markdown /\ viewerMounted') =>
              /\ markmapRef' = markmapRef
              /\ fullscreenMarkmapRef' = fullscreenMarkmapRef
              /\ mmLog'.op # "destroy"
        /\ (isFullscreen' # isFullscreen) => ~fullscreenMarkmapRef'
        /\ (mmLog'.op = "setData" /\ mmLog'.surface = "fullscreen") => mmLog'.by # "effect"
      ]_vars

\* a run of initMarkmapOnSvg that sees a box of nonzero size and no diagram
\* on its surface
NonzeroAttempt(c) ==
    /\ c \in scheduled
    /\ ~(c.outer /\ ~Attached(c.surface))
    /\ ~(c.detached \/ boxZero[c.surface])
    /\ ~RefOf(c.surface)

\* C23 as stated: no diagram is created on a zero box, a zero box asks for
\* another animation frame, and the first attempt that sees a nonzero box
\* creates the diagram
C23_Original ==
    [][ /\ mmLog'.op = "create" => ~boxZero[mmLog'.surface] /\ Attached(mmLog'.surface)
        /\ mmLog'.op = "retry" =>
              \E c \in scheduled :
                  /\ c.surface = mmLog'.surface
                  /\ c.detached \/ boxZero[c.surface]
                  /\ Retry(c, "frame") \in scheduled'
        /\ \A c \in scheduled, throws \in BOOLEAN :
              (NonzeroAttempt(c) /\ RunScheduled(c, throws)) => mmLog'.op = "create"
      ]_vars

\* C23: no diagram is created on a zero box, a zero box asks for another
\* animation frame, and the first attempt that sees a nonzero box creates the
\* diagram unless Markmap.create throws; then nothing is created and the
\* attempt is repeated by a timeout
C23_Amended ==
    [][ /\ mmLog'.op = "create" => ~boxZero[mmLog'.surface] /\ Attached(mmLog'.surface)
        /\ mmLog'.op = "retry" =>
              \E c \in scheduled :
                  /\ c.surface = mmLog'.surface
                  /\ c.detached \/ boxZero[c.surface]
                  /\ Retry(c, "frame") \in scheduled'
        /\ \A c \in scheduled, throws \in BOOLEAN :
              (NonzeroAttempt(c) /\ RunScheduled(c, throws)) =>
                  IF throws
                  THEN /\ mmLog'.op = "throw"
                       /\ ~RefOf(c.surface)'
                       /\ Retry(c, "timeout") \in scheduled'
                  ELSE /\ mmLog'.op = "create"
                       /\ RefOf(c.surface)'
      ]_vars

\* the diagram of the card was created by a frame that a zero box had asked for
C23_Witness ==
    /\ mmLog.op = "create"
    /\ mmLog.by = "frame"
    /\ mmLog.surface = "inline"
    /\ markmapRef

\* C24: once the viewer is unmounted no retry runs any more, and no diagram
\* is ever created or updated from a markdown that has been replaced
C24_Claim ==
    [][ /\ mmLog'.op \in {"create", "setData"} => mmLog'.md = markdown
        /\ ~viewerMounted => mmLog'.op \notin {"retry", "throw", "create", "setData"}
      ]_vars

\* C25: a started run raises at most one terminal notification and calls its
\* completion callback at most once, also with several ticks in flight
C25_Claim == \A r \in RunIds : runs[r].nTerm <= 1 /\ runs[r].nDone <= 1

\* the ids of the jobs listed as drafts
DraftIds == { drafts[j].id : j \in DOMAIN drafts }

\* C26: every selected id is the id of a job listed as a draft, and Start
\* Selected sends ids of listed drafts only
C26_Claim ==
    [][ /\ selectedIds' \subseteq DraftIds'
        /\ ev'.req.kind = "start" => ev'.req.ids \subseteq DraftIds
      ]_vars

\* C27: no file is accepted by the backend more often than it was put on the
\* pending list
C27_Claim == \A f \in FileIds : acceptedCount[f] <= addedCount[f]

\* C28: with no save in flight the speaker map the page holds has, for every
\* speaker, the name the backend stored last
C28_Claim == speakerReq = NoSpeakerReq => \A sp \in SpeakerIds : pageSpeakers[sp] = srvNames[sp]

\* C29: once the job record and the primary transcript are stored, the page
\* is never in its error state
C29_Claim == (transcription /\ transcript) => error = NoPageError

\* the indices of the segments that start at or before the timestamp
AtOrBefore == { i \in 0..(Len(segments) - 1) : StartOf(i) <= timestamp }
Greatest(S) == CHOOSE i \in S : \A j \in S : j <= i

\* every pass through the loop either ends it or narrows the range that is
\* left to search, which stays inside the list; a call makes no more passes
\* than the list has segments
SearchTerminates ==
    /\ searchPc = "loop" => 0 <= left /\ left <= right /\ right < Len(segments)
    /\ passes' <= Len(segments')
    /\ searchPc = "loop" =>
          \/ searchPc' = "scroll"
          \/ searchPc' = "loop" /\ right' - left' < right - left

\* C30 as stated: the search ends, with the greatest index that starts at or
\* before the timestamp, or 0 when there is none
C30_Original ==
    [][ /\ SearchTerminates
        /\ searchPc' = "scroll" =>
              nearest' = IF AtOrBefore' = {} THEN 0 ELSE Greatest(AtOrBefore')
      ]_vars

\* C30: the search ends, with 0 when no segment starts at or before the
\* timestamp, else with a segment that starts exactly at the timestamp if
\* there is one (the first one the search meets), else with the greatest index
\* that starts before it
C30_Amended ==
    [][ /\ SearchTerminates
        /\ searchPc' = "scroll" =>
              IF AtOrBefore' = {} THEN nearest' = 0
              ELSE /\ nearest' \in AtOrBefore'
                   /\ \/ nearest' = Greatest(AtOrBefore')
                      \/ StartOf(nearest)' = timestamp'
        /\ (searchPc' = "scroll" /\ \A i, j \in AtOrBefore' : i # j => StartOf(i)' # StartOf(j)') =>
              nearest' = IF AtOrBefore' = {} THEN 0 ELSE Greatest(AtOrBefore')
      ]_vars

\* a search over a full list ended after more than one pass on the last of the
\* segments that start before the timestamp, and that segment was shown
C30_Witness ==
    /\ searchPc = "idle"
    /\ passes > 1
    /\ Len(segments) = MaxSegments
    /\ scrolledTo = nearest
    /\ nearest = 1
    /\ StartOf(1) < timestamp
    /\ timestamp < StartOf(2)

====
